---- MODULE Spec2Model ----
\* Per-shard query mappers of tsdb (RawMapper, AggMapper) with their tag-set
\* cursors and series cursors, as a state machine whose steps are the calls
\* Open, NextChunk and Close of one mapper.
\*
\* Representation:
\*   - a Go value that may be nil ([]byte, interface{}, influxql.Expr, a pointer)
\*     is a sequence of length 0 (nil) or 1 (the value);
\*   - the raw bytes of a point are the map field name -> value they encode, or
\*     Corrupt for bytes the codec cannot decode;
\*   - a tag-set key (measurement|tag=value...) is a number whose order is the
\*     lexicographic order of the key strings.
EXTENDS Integers, Sequences, FiniteSets, TLC

\* shard, index: the shard's stored points and its measurement index.
\* stmt: the SELECT statement.  kind: the mapper the caller constructed, "raw"
\* or "agg".  rm, am: the RawMapper and the AggMapper.
\* phase: the caller's position, created -> opened -> closed.  err: the error
\* Open returned ("" for nil).  out: the chunks NextChunk has returned, in
\* order.  eos: NextChunk has returned nil.
\* closedAgain: Close has been called on the closed mapper.
\* walk, walked: a cursor driven on its own (Nil when there is none), a series
\* cursor or the member series cursors of a tag-set cursor, and what its
\* calls have returned, in order.
\* atOpen: the shard as it was when Open was called (Nil before).
VARIABLES shard, index, stmt, kind, rm, am, phase, err, out, eos, closedAgain, walk, walked,
          atOpen

vars == <<shard, index, stmt, kind, rm, am, phase, err, out, eos, closedAgain, walk, walked,
         atOpen>>

\* ---------------------------------------------------------------- bounds

\* Largest timestamp of a point in the enumerated shards.
MaxTime == 2
\* Largest chunk size a RawMapper is constructed with.
MaxChunkSize == 2
\* Largest timestamp of a point in the shards enumerated for the AggMapper.
MaxAggTime == 3
\* The length of one hour, the GROUP BY time interval of the aggregate
\* statements, in the units of the timestamps.
Hour == 2

\* Most points the cache holds for one series before the writer must flush.
MaxCached == 1

\* Most calls made on a series cursor that is driven on its own.
MaxCalls == 4

\* ---------------------------------------------------------------- values

Nil == << >>
Some(x) == <<x>>

Corrupt == [corrupt |-> 0]

Min2(a, b) == IF a < b THEN a ELSE b
Max2(a, b) == IF a > b THEN a ELSE b

\* ---------------------------------------------------------------- codec

\* FieldCodec.DecodeFieldsWithNames: all fields of a point, or an error.
DecodeFieldsWithNames(b) ==
    IF "corrupt" \in DOMAIN b
    THEN [err |-> TRUE, v |-> Nil]
    ELSE [err |-> FALSE, v |-> Some(b)]

\* FieldCodec.DecodeByName: one named field of a point, or an error. The
\* decoded scalar is kept with its field name, [name |-> value].
DecodeByName(name, b) ==
    IF "corrupt" \in DOMAIN b \/ name \notin DOMAIN b
    THEN [err |-> TRUE, v |-> Nil]
    ELSE [err |-> FALSE, v |-> Some([n \in {name} |-> b[name]])]

\* influxql.Eval of a filter expression  field > min  over decoded fields:
\* a boolean, or nil (Nil) when the field is not among the fields.
Eval(f, fields) ==
    IF f.field \in DOMAIN fields
    THEN Some(fields[f.field] > f.min)
    ELSE Nil

\* matchesWhere: true only when the filter evaluates to the boolean true.
matchesWhere(f, fields) ==
    LET r == Eval(f, fields)
    IN  IF r = Nil THEN FALSE ELSE r[1]

\* ---------------------------------------------------------------- shardCursor

\* The order of two keys as 8-byte big-endian unsigned integers, u64tob(uint64(a))
\* against u64tob(uint64(b)): a negative int64 converts to a key above every
\* non-negative one.
AtLeastAsUint64(a, b) ==
    IF (a < 0) = (b < 0) THEN a >= b ELSE a < 0

\* A point put at its place in a sequence ascending by key, the keys in the
\* order of their bytes; it replaces an entry of the same key.
RECURSIVE SortedInsert(_, _)
SortedInsert(s, e) ==
    IF s = << >> THEN <<e>>
    ELSE IF e.k = Head(s).k THEN <<e>> \o Tail(s)
    ELSE IF ~AtLeastAsUint64(e.k, Head(s).k) THEN <<e>> \o s
    ELSE <<Head(s)>> \o SortedInsert(Tail(s), e)

RECURSIVE MergeInto(_, _)
MergeInto(s, pts) ==
    IF pts = << >> THEN s ELSE MergeInto(SortedInsert(s, Head(pts)), Tail(pts))

\* The entries a shardCursor walks: the bucket's entries, which the store
\* keeps in the order of their key bytes, and the copied cache points merged
\* into that order, a cache point replacing a bucket entry of the same key.
MergedEntries(bucket, cache) == MergeInto(bucket, cache)

\* shardCursor.Seek: the first entry with key >= seek, which is consumed. The
\* keys are compared as the unsigned integers their bytes are.
RECURSIVE FirstAtLeast(_, _, _)
FirstAtLeast(entries, i, key) ==
    IF i > Len(entries) THEN i
    ELSE IF AtLeastAsUint64(entries[i].k, key) THEN i
    ELSE FirstAtLeast(entries, i + 1, key)

shardCursorSeek(sc, key) ==
    LET at(i) == IF i > Len(sc.entries)
                 THEN [sc |-> [sc EXCEPT !.index = i], kv |-> Nil]
                 ELSE [sc |-> [sc EXCEPT !.index = i + 1], kv |-> Some(sc.entries[i])]
    IN  at(FirstAtLeast(sc.entries, 1, key))

\* shardCursor.Next: the entry at the position, which is consumed.
shardCursorNext(sc) ==
    IF sc.index > Len(sc.entries)
    THEN [sc |-> sc, kv |-> Nil]
    ELSE [sc |-> [sc EXCEPT !.index = sc.index + 1], kv |-> Some(sc.entries[sc.index])]

\* What a cursor of the read transaction sees of a bucket whose contents at
\* the transaction's begin were snapshot and are live now: the snapshot.
txBucket(snapshot, live) == snapshot

\* cacheCopy that hands out the shard's own slice.
cacheShared(copy, live) == live

\* What a cursor sees of the cached points it copied at its creation (copy)
\* when the shard's cache holds live now: the copy.
cacheCopy(copy, live) == copy

\* A shardCursor in front of the shard sh: its entries follow what it sees of
\* its bucket and of its cache.
shardCursorOver(sc, sh) ==
    LET seen(b, c) == [sc EXCEPT !.bucket = b, !.cache = c, !.entries = MergedEntries(b, c)]
    IN  seen(txBucket(sc.bucket, sh.bolt[sc.key]), cacheCopy(sc.cache, sh.cache[sc.key]))

\* createCursorForSeries: nil when the series has neither bucket nor cached
\* points, else a cursor over the bucket and a copy of the cache.
createCursorForSeries(sh, key) ==
    IF sh.bolt[key] = << >> /\ Len(sh.cache[key]) = 0
    THEN Nil
    ELSE Some([key |-> key, bucket |-> sh.bolt[key], cache |-> sh.cache[key],
               entries |-> MergedEntries(sh.bolt[key], sh.cache[key]), index |-> 1])

\* ---------------------------------------------------------------- seriesCursor

newSeriesCursor(b, filter) ==
    [cursor |-> b, filter |-> filter, keyBuffer |-> -1, valueBuffer |-> Nil]

\* The buffers of a series cursor after it read r from its shardCursor: key 0
\* for no entry (the value buffer is left as it is), else the entry.
buffered(mc, r) ==
    IF r.kv = Nil
    THEN [mc EXCEPT !.cursor = r.sc, !.keyBuffer = 0]
    ELSE [mc EXCEPT !.cursor = r.sc, !.keyBuffer = r.kv[1].k,
                    !.valueBuffer = Some(r.kv[1].v)]

\* seriesCursor.Peek: the cursor after the call (mc), and the pair returned.
seriesCursorPeek(mc) ==
    LET ret(m2) == [mc |-> m2, key |-> m2.keyBuffer, value |-> m2.valueBuffer]
    IN  ret(IF mc.keyBuffer = -1 THEN buffered(mc, shardCursorNext(mc.cursor)) ELSE mc)

\* seriesCursor.SeekTo: the key is sought as uint64(key).
seriesCursorSeekTo(mc, key) == buffered(mc, shardCursorSeek(mc.cursor, key))

\* seriesCursor.Next
seriesCursorNext(mc) ==
    LET read(r) == IF r.kv = Nil
                   THEN [mc |-> [mc EXCEPT !.cursor = r.sc], key |-> 0, value |-> Nil]
                   ELSE [mc |-> [mc EXCEPT !.cursor = r.sc],
                         key |-> r.kv[1].k, value |-> Some(r.kv[1].v)]
    IN  IF mc.keyBuffer # -1
        THEN [mc |-> [mc EXCEPT !.keyBuffer = -1, !.valueBuffer = Nil],
              key |-> mc.keyBuffer, value |-> mc.valueBuffer]
        ELSE read(shardCursorNext(mc.cursor))

\* ---------------------------------------------------------------- tagSetCursor

newTagSetCursor(m, t, c) == [measurement |-> m, tags |-> t, cursors |-> c]

\* The range test of nextCursor: a lookahead timestamp that is not the
\* "no data" value 0 and is tmin itself or lies in [tmin, tmax).
inRange(timestamp, tmin, tmax) ==
    timestamp # 0 /\ ((timestamp = tmin) \/ (timestamp >= tmin /\ timestamp < tmax))

\* replacesMin with the comparison turned round.
replacesMinFlipped(timestamp, currMinTimestamp) == timestamp > currMinTimestamp

\* The replacement test of nextCursor: a later cursor replaces the current
\* minimum only with a strictly lower timestamp.
replacesMin(timestamp, currMinTimestamp) == timestamp < currMinTimestamp

\* tagSetCursor.nextCursor: every cursor is peeked; minCursor is the position
\* (from 1) of the chosen series cursor, 0 for nil. A cursor in range is
\* compared with the current minimum, which is peeked again for it: that Peek
\* reads the minimum's shardCursor once more when its buffered key is a stored
\* -1, the value that stands for "nothing buffered".
RECURSIVE nextCursorLoop(_, _, _, _, _)
nextCursorLoop(cs, i, minCursor, tmin, tmax) ==
    LET compared(cs2, timestamp, curr) ==
            nextCursorLoop([cs2 EXCEPT ![minCursor] = curr.mc], i + 1,
                           IF replacesMin(timestamp, curr.key) THEN i ELSE minCursor,
                           tmin, tmax)
        peeked(cs2, p) ==
            IF inRange(p.key, tmin, tmax)
            THEN IF minCursor = 0
                 THEN nextCursorLoop(cs2, i + 1, i, tmin, tmax)
                 ELSE compared(cs2, p.key, seriesCursorPeek(cs2[minCursor]))
            ELSE nextCursorLoop(cs2, i + 1, minCursor, tmin, tmax)
        step(p) == peeked([cs EXCEPT ![i] = p.mc], p)
    IN  IF i > Len(cs) THEN [cursors |-> cs, minCursor |-> minCursor]
        ELSE step(seriesCursorPeek(cs[i]))

nextCursor(cs, tmin, tmax) == nextCursorLoop(cs, 1, 0, tmin, tmax)

\* filtered with the test of the match negated.
filteredNegated(filter, fields, v) ==
    IF matchesWhere(filter[1], fields) THEN Nil ELSE v

\* The filter step of tagSetCursor.Next on a decoded value v (an option):
\* Nil when the filter does not match the fields it is evaluated on.
filtered(filter, fields, v) ==
    IF ~matchesWhere(filter[1], fields) THEN Nil ELSE v

\* The decode and filter step of tagSetCursor.Next for one popped point: the
\* value to return, or Nil when the point is skipped.
decodeValue(filter, bytes, selectFields, whereFields) ==
    LET multi(d) ==
            IF d.err THEN Nil
            ELSE IF filter # Nil THEN filtered(filter, d.v[1], d.v) ELSE d.v
        all(a, v) ==
            IF a.err THEN Nil ELSE filtered(filter, a.v[1], v)
        single(d) ==
            IF d.err THEN Nil
            ELSE IF filter # Nil
            THEN IF Len(whereFields) = 1 /\ whereFields[1] = selectFields[1]
                 THEN filtered(filter, d.v[1], d.v)
                 ELSE all(DecodeFieldsWithNames(bytes), d.v)
            ELSE d.v
    IN  IF Len(selectFields) > 1
        THEN multi(DecodeFieldsWithNames(bytes))
        ELSE single(DecodeByName(selectFields[1], bytes))

\* The bytes handed to the decoder for the value a series cursor returned: a
\* nil slice (no value) holds no field, so that its decode fails as that of
\* undecodable bytes does.
bytesOf(value) == IF value = Nil THEN Corrupt ELSE value[1]

\* tagSetCursor.Next over the series cursors cs. bytes and filter are the raw
\* point and the series filter the returned value was decoded from.
RECURSIVE tagSetCursorNext(_, _, _, _, _)
tagSetCursorNext(cs, tmin, tmax, selectFields, whereFields) ==
    LET decoded(cs2, n, value) ==
            IF value = Nil
            THEN tagSetCursorNext(cs2, tmin, tmax, selectFields, whereFields)
            ELSE [cursors |-> cs2, key |-> n.key, value |-> value,
                  bytes |-> n.value, filter |-> n.mc.filter]
        popped(nc, n) ==
            decoded([nc.cursors EXCEPT ![nc.minCursor] = n.mc], n,
                    decodeValue(n.mc.filter, bytesOf(n.value), selectFields, whereFields))
        chosen(nc) ==
            IF nc.minCursor = 0
            THEN [cursors |-> nc.cursors, key |-> 0, value |-> Nil, bytes |-> Nil, filter |-> Nil]
            ELSE popped(nc, seriesCursorNext(nc.cursors[nc.minCursor]))
    IN  chosen(nextCursor(cs, tmin, tmax))

\* tagSetCursor.SeekTo
tagSetCursorSeekTo(cs, key) == [i \in 1..Len(cs) |-> seriesCursorSeekTo(cs[i], key)]

\* formMeasurementTagSetKey: the bare name when there are no tags (tags 0),
\* else name|tags; as the number that orders the keys as the strings are
\* ordered, cpu < cpu|1 < cpu|2 < mem < mem|1.
formMeasurementTagSetKey(name, tags) == (IF name = "cpu" THEN 10 ELSE 20) + tags

\* tagSetCursor.key
tagSetCursorKey(tsc) == formMeasurementTagSetKey(tsc.measurement, tsc.tags)

\* sort.Sort(tagSetCursors(...)): ascending by key.
RECURSIVE InsertCursor(_, _)
InsertCursor(s, c) ==
    IF s = << >> THEN <<c>>
    ELSE IF tagSetCursorKey(c) < tagSetCursorKey(Head(s)) THEN <<c>> \o s
    ELSE <<Head(s)>> \o InsertCursor(Tail(s), c)

\* SortCursors that leaves the cursors in the order they were appended.
SortCursorsSkipped(s) == s

RECURSIVE SortCursors(_)
SortCursors(s) == IF s = << >> THEN << >> ELSE InsertCursor(SortCursors(Tail(s)), Head(s))

\* InsertKey that puts every key last.
InsertKeyLast(s, k) == Append(s, k)

\* sort.Strings: ascending.
RECURSIVE InsertKey(_, _)
InsertKey(s, k) ==
    IF s = << >> THEN <<k>>
    ELSE IF k < Head(s) THEN <<k>> \o s
    ELSE <<Head(s)>> \o InsertKey(Tail(s), k)

RECURSIVE SortStrings(_)
SortStrings(s) == IF s = << >> THEN << >> ELSE InsertKey(SortStrings(Tail(s)), Head(s))

\* tagSetCursors.Keys
Keys(a) == SortStrings([i \in 1..Len(a) |-> tagSetCursorKey(a[i])])

\* ---------------------------------------------------------------- statement and index

\* influxql.TimeRangeAsEpochNano of the statement's condition.
TimeRangeAsEpochNano(cond) == [min |-> cond.tmin, max |-> cond.tmax]

\* SelectStatement.NamesInSelect and NamesInWhere.
NamesInSelect(st) == st.Fields \o [i \in 1..Len(st.Calls) |-> st.Calls[i].Field]
NamesInWhere(st) ==
    <<"time">> \o (IF st.Condition.filter = Nil THEN << >> ELSE <<st.Condition.filter[1].field>>)

\* shard.index.Measurement: the measurement of that name, or nil.
Measurement(idx, name) == IF name \in DOMAIN idx THEN Some(idx[name]) ELSE Nil

HasField(m, n) == n \in m.fields
HasTagKey(m, n) == n \in m.tagKeys

\* Dimensions.Normalize: the tag keys of the GROUP BY clause, or the error of
\* a dimension that is neither a tag reference nor a time() call of one
\* duration.
Normalize(st) ==
    IF st.IntervalErr # "" THEN [err |-> st.IntervalErr, tagKeys |-> << >>]
    ELSE [err |-> "", tagKeys |-> st.Dimensions]

\* Every series key of the tag sets ts, in their order.
RECURSIVE AllSeriesKeys(_)
AllSeriesKeys(ts) ==
    IF ts = << >> THEN << >> ELSE Head(ts).SeriesKeys \o AllSeriesKeys(Tail(ts))

\* Measurement.TagSets: the sorted tag sets of the measurement's series grouped
\* by the values of the tag keys tagKeys, each with its series keys and, per
\* series key, the filter of the statement's condition; or the error of a
\* condition the index cannot turn into series filters. The measurement's
\* series differ in the tag host alone: without that key among tagKeys they
\* make one tag set, of no tags.
TagSets(m, st, tagKeys) ==
    LET grouped ==
            IF \E i \in 1..Len(tagKeys) : tagKeys[i] = "host" THEN m.tagSets
            ELSE IF m.tagSets = << >> THEN << >>
            ELSE <<[Tags |-> 0, SeriesKeys |-> AllSeriesKeys(m.tagSets)]>>
    IN  IF st.TagSetsErr # "" THEN [err |-> st.TagSetsErr, tagSets |-> << >>]
        ELSE [err |-> "",
              tagSets |->
                  [i \in 1..Len(grouped) |->
                      [Tags       |-> grouped[i].Tags,
                       SeriesKeys |-> grouped[i].SeriesKeys,
                       Filters    |-> [j \in 1..Len(grouped[i].SeriesKeys) |->
                                          st.Condition.filter]]]]

\* stringSet.add over a list of names, then list().
RECURSIVE Distinct(_)
Distinct(s) ==
    IF s = << >> THEN << >>
    ELSE LET r == Distinct(SubSeq(s, 1, Len(s) - 1))
             x == s[Len(s)]
         IN  IF \E i \in 1..Len(r) : r[i] = x THEN r ELSE Append(r, x)

\* createTagSetsAndFields with the name time of the WHERE clause validated
\* like any other name.
createTagSetsAndFieldsTimeChecked(m, st) ==
    LET norm  == Normalize(st)
        sel   == NamesInSelect(st)
        whr   == NamesInWhere(st)
        isF(n) == HasField(m, n)
        isT(n) == ~HasField(m, n) /\ HasTagKey(m, n)
        tagKeys == norm.tagKeys \o SelectSeq(sel, isT)
        resolved(ts) ==
            IF ts.err # "" THEN [err |-> ts.err]
            ELSE [err          |-> "",
                  tagKeys      |-> tagKeys,
                  tagSets      |-> ts.tagSets,
                  selectFields |-> Distinct(SelectSeq(sel, isF)),
                  selectTags   |-> Distinct(SelectSeq(sel, isT)),
                  whereFields  |-> Distinct(SelectSeq(whr, isF))]
    IN  IF norm.err # "" THEN [err |-> norm.err]
        ELSE IF \E i \in 1..Len(sel) : ~HasField(m, sel[i]) /\ ~HasTagKey(m, sel[i])
        THEN [err |-> "unknown field or tag name in select clause"]
        ELSE IF \E i \in 1..Len(whr) : ~HasField(m, whr[i]) /\ ~HasTagKey(m, whr[i])
        THEN [err |-> "unknown field or tag name in where clause"]
        ELSE resolved(TagSets(m, st, tagKeys))

\* createTagSetsAndFields: the error of Normalize, of the first unknown name
\* of the SELECT clause, of the first unknown name of the WHERE clause or of
\* Measurement.TagSets, in that order, or the tag sets and the names.
\* tagKeys is kept beside the result: the dimension keys handed to
\* Measurement.TagSets, the statement's GROUP BY keys followed by every tag
\* key of the SELECT clause as it occurs.
createTagSetsAndFields(m, st) ==
    LET norm  == Normalize(st)
        sel   == NamesInSelect(st)
        whr   == SelectSeq(NamesInWhere(st), LAMBDA n : n # "time")
        isF(n) == HasField(m, n)
        isT(n) == ~HasField(m, n) /\ HasTagKey(m, n)
        tagKeys == norm.tagKeys \o SelectSeq(sel, isT)
        resolved(ts) ==
            IF ts.err # "" THEN [err |-> ts.err]
            ELSE [err          |-> "",
                  tagKeys      |-> tagKeys,
                  tagSets      |-> ts.tagSets,
                  selectFields |-> Distinct(SelectSeq(sel, isF)),
                  selectTags   |-> Distinct(SelectSeq(sel, isT)),
                  whereFields  |-> Distinct(SelectSeq(whr, isF))]
    IN  IF norm.err # "" THEN [err |-> norm.err]
        ELSE IF \E i \in 1..Len(sel) : ~HasField(m, sel[i]) /\ ~HasTagKey(m, sel[i])
        THEN [err |-> "unknown field or tag name in select clause"]
        ELSE IF \E i \in 1..Len(whr) : ~HasField(m, whr[i]) /\ ~HasTagKey(m, whr[i])
        THEN [err |-> "unknown field or tag name in where clause"]
        ELSE resolved(TagSets(m, st, tagKeys))

\* The SLIMIT / SOFFSET block of Open: the retained tag sets and the
\* statement's SLimit as the block leaves it.
sliceTagSets(tagSets, st) ==
    IF st.SLimit > 0 \/ st.SOffset > 0
    THEN IF st.SOffset > Len(tagSets)
         THEN [tagSets |-> << >>, SLimit |-> st.SLimit]
         ELSE LET lim == IF st.SOffset + st.SLimit > Len(tagSets)
                         THEN Len(tagSets) - st.SOffset ELSE st.SLimit
              IN  [tagSets |-> SubSeq(tagSets, st.SOffset + 1, st.SOffset + lim),
                   SLimit  |-> lim]
    ELSE [tagSets |-> tagSets, SLimit |-> st.SLimit]

\* The series cursors Open builds for one tag set; seek says whether each is
\* sought to tmin (RawMapper) or left unpositioned (AggMapper).
RECURSIVE seriesCursorsFor(_, _, _, _, _)
seriesCursorsFor(sh, t, i, seek, tmin) ==
    LET sought(cm) == IF seek THEN seriesCursorSeekTo(cm, tmin) ELSE cm
        created(c, rest) ==
            IF c = Nil THEN rest
            ELSE <<sought(newSeriesCursor(c[1], t.Filters[i]))>> \o rest
    IN  IF i > Len(t.SeriesKeys) THEN << >>
        ELSE created(createCursorForSeries(sh, t.SeriesKeys[i]),
                     seriesCursorsFor(sh, t, i + 1, seek, tmin))

tagSetCursorsFor(sh, name, tagSets, seek, tmin) ==
    [i \in 1..Len(tagSets) |->
        newTagSetCursor(name, tagSets[i].Tags, seriesCursorsFor(sh, tagSets[i], 1, seek, tmin))]

\* ---------------------------------------------------------------- RawMapper

NewRawMapper(chunkSize) ==
    [chunkSize |-> chunkSize, tx |-> "nil", queryTMin |-> 0, queryTMax |-> 0,
     whereFields |-> << >>, selectFields |-> << >>, selectTags |-> << >>,
     cursors |-> << >>, currCursorIndex |-> 0]

\* The part of Open after createTagSetsAndFields returned tsf for measurement
\* mm: the select-field check, SLIMIT / SOFFSET, the cursors and their sort.
RawMapperOpenCursors(m1, st, sh, mm, tsf) ==
    LET m2 == [m1 EXCEPT !.selectFields = tsf.selectFields,
                         !.selectTags = tsf.selectTags,
                         !.whereFields = tsf.whereFields]
        built(sl) ==
            [rm   |-> [m2 EXCEPT !.cursors = SortCursors(
                          @ \o tagSetCursorsFor(sh, mm.Name, sl.tagSets, TRUE, m1.queryTMin))],
             stmt |-> [st EXCEPT !.SLimit = sl.SLimit],
             err  |-> ""]
    IN  IF tsf.err # "" THEN [rm |-> m1, stmt |-> st, err |-> tsf.err]
        ELSE IF Len(tsf.selectFields) = 0
        THEN [rm |-> m2, stmt |-> st, err |-> "select statement must include at least one field"]
        ELSE built(sliceTagSets(tsf.tagSets, st))

\* RawMapperOpenSource for which a measurement the index lacks is an error.
RawMapperOpenSourceStrict(m1, st, sh, src, mm) ==
    IF ~src.isMeasurement THEN [rm |-> m1, stmt |-> st, err |-> "invalid source type"]
    ELSE IF mm = Nil THEN [rm |-> m1, stmt |-> st, err |-> "measurement not found"]
    ELSE RawMapperOpenCursors(m1, st, sh, mm[1], createTagSetsAndFields(mm[1], st))

\* The body of Open's loop over the sources, for the one source src.
RawMapperOpenSource(m1, st, sh, src, mm) ==
    IF ~src.isMeasurement THEN [rm |-> m1, stmt |-> st, err |-> "invalid source type"]
    ELSE IF mm = Nil THEN [rm |-> m1, stmt |-> st, err |-> ""]
    ELSE RawMapperOpenCursors(m1, st, sh, mm[1], createTagSetsAndFields(mm[1], st))

\* Open's loop over the sources, from source i on: it ends at the first
\* source that returns, with an error or for a measurement the index lacks.
RECURSIVE RawMapperOpenSources(_, _, _, _, _)
RawMapperOpenSources(m1, st, sh, idx, i) ==
    LET returns(src) == src.isMeasurement /\ Measurement(idx, src.Name) = Nil
        after(r) ==
            IF r.err # "" \/ returns(st.Sources[i]) THEN r
            ELSE RawMapperOpenSources(r.rm, r.stmt, sh, idx, i + 1)
    IN  IF i > Len(st.Sources) THEN [rm |-> m1, stmt |-> st, err |-> ""]
        ELSE after(RawMapperOpenSource(m1, st, sh, st.Sources[i],
                                       Measurement(idx, st.Sources[i].Name)))

\* RawMapper.Open: the mapper, the statement and the error ("" for nil) it
\* returns.
RawMapperOpen(m0, st, sh, idx) ==
    LET tr == TimeRangeAsEpochNano(st.Condition)
    IN  RawMapperOpenSources(
            [m0 EXCEPT !.tx = "open", !.queryTMin = tr.min, !.queryTMax = tr.max],
            st, sh, idx, 1)

\* RawMapperOpenTx that stores the transaction before it looks at the error.
RawMapperOpenTxStored(m0, st, sh, idx, begin) ==
    IF begin # "" THEN [rm |-> [m0 EXCEPT !.tx = "open"], stmt |-> st, err |-> begin]
    ELSE RawMapperOpen(m0, st, sh, idx)

\* RawMapper.Open with the outcome of shard.DB().Begin(false): begin is the
\* error it returns ("" for nil). On an error Open returns it at once.
RawMapperOpenTx(m0, st, sh, idx, begin) ==
    IF begin # "" THEN [rm |-> m0, stmt |-> st, err |-> begin]
    ELSE RawMapperOpen(m0, st, sh, idx)

\* RawMapper.TagSets
RawMapperTagSets(m) == Keys(m.cursors)

\* chunkFull one value late.
chunkFullLate(n, chunkSize) == n = chunkSize + 1

\* chunkFull one value early.
chunkFullEarly(n, chunkSize) == n = chunkSize - 1

\* The return test of NextChunk's loop after a value was appended.
chunkFull(n, chunkSize) == n = chunkSize

\* returnPending that never returns the pending chunk.
returnPendingNever(output) == FALSE

\* What NextChunk does when the current tag-set cursor is exhausted and a
\* chunk is pending: TRUE to return the chunk, FALSE to go on.
returnPending(output) == output # Nil

\* The loop of NextChunk with the output made before the first value is read:
\* an exhausted tag-set cursor returns the chunk as it is, also with no value.
RECURSIVE RawNextChunkLoopEager(_, _)
RawNextChunkLoopEager(m, output) ==
    LET ci     == m.currCursorIndex + 1
        cursor == m.cursors[ci]
        o1 == IF output = Nil
              THEN [Name |-> cursor.measurement, Tags |-> cursor.tags,
                    Values |-> << >>, Origin |-> << >>]
              ELSE output[1]
        appended(m2, o2) ==
            IF chunkFull(Len(o2.Values), m.chunkSize)
            THEN [rm |-> m2, output |-> Some(o2)]
            ELSE RawNextChunkLoopEager(m2, Some(o2))
        pulled(r) ==
            IF r.value = Nil
            THEN [rm |-> [m EXCEPT !.cursors[ci].cursors = r.cursors,
                                   !.currCursorIndex = @ + 1],
                  output |-> Some(o1)]
            ELSE appended([m EXCEPT !.cursors[ci].cursors = r.cursors],
                          [o1 EXCEPT
                             !.Values = Append(@, [Time |-> r.key, Value |-> r.value[1]]),
                             !.Origin = Append(@, [tags |-> cursor.tags, bytes |-> r.bytes[1],
                                                   filter |-> r.filter])])
    IN  IF m.currCursorIndex = Len(m.cursors) THEN [rm |-> m, output |-> Nil]
        ELSE pulled(tagSetCursorNext(cursor.cursors, m.queryTMin, m.queryTMax,
                                     m.selectFields, m.whereFields))

\* RawMapper.NextChunk: the loop, from the mapper m and the pending output.
\* Origin is kept beside Values: per value, the key of the tag-set cursor it
\* was read from, its raw bytes and its series filter.
RECURSIVE RawNextChunkLoop(_, _)
RawNextChunkLoop(m, output) ==
    LET ci     == m.currCursorIndex + 1
        cursor == m.cursors[ci]
        appended(m2, o2) ==
            IF chunkFull(Len(o2.Values), m.chunkSize)
            THEN [rm |-> m2, output |-> Some(o2)]
            ELSE RawNextChunkLoop(m2, Some(o2))
        exhausted(m3) ==
            IF returnPending(output)
            THEN [rm |-> m3, output |-> output]
            ELSE RawNextChunkLoop(m3, output)
        o1 == IF output = Nil
              THEN [Name |-> cursor.measurement, Tags |-> cursor.tags,
                    Values |-> << >>, Origin |-> << >>]
              ELSE output[1]
        pulled(r) ==
            IF r.value = Nil
            THEN exhausted([m EXCEPT !.cursors[ci].cursors = r.cursors,
                                     !.currCursorIndex = @ + 1])
            ELSE appended([m EXCEPT !.cursors[ci].cursors = r.cursors],
                          [o1 EXCEPT
                             !.Values = Append(@, [Time |-> r.key, Value |-> r.value[1]]),
                             !.Origin = Append(@, [tags |-> cursor.tags, bytes |-> r.bytes[1],
                                                   filter |-> r.filter])])
    IN  IF m.currCursorIndex = Len(m.cursors) THEN [rm |-> m, output |-> Nil]
        ELSE pulled(tagSetCursorNext(cursor.cursors, m.queryTMin, m.queryTMax,
                                     m.selectFields, m.whereFields))

RawMapperNextChunk(m) == RawNextChunkLoop(m, Nil)

\* RawMapperClose whose second rollback leaves the transaction failed.
RawMapperCloseOnce(m) ==
    IF m.tx = "nil" THEN m
    ELSE [m EXCEPT !.tx = IF @ = "closed" THEN "failed" ELSE "closed"]

\* RawMapper.Close: the read transaction is rolled back when there is one.
RawMapperClose(m) == IF m.tx # "nil" THEN [m EXCEPT !.tx = "closed"] ELSE m

\* ---------------------------------------------------------------- AggMapper

\* tsdb.MaxGroupByPoints
MaxGroupByPoints == 100000

NewAggMapper ==
    [tx |-> "nil", queryTMin |-> 0, queryTMinWindow |-> 0, queryTMax |-> 0,
     intervalSize |-> 0, mapFuncs |-> << >>, fieldNames |-> << >>,
     whereFields |-> << >>, selectFields |-> << >>, selectTags |-> << >>,
     numIntervals |-> 0, currInterval |-> 0, cursors |-> << >>, currCursorIndex |-> 0]

\* influxql.InitializeMapFunc: the map function of a call, by name.
KnownMapFuncs == {"mean", "sum", "count"}

\* The first call Open rejects (0 for none) and the error it returns:
\* InitializeMapFunc fails, or the call's argument is neither a field
\* reference nor, for count, a distinct call.
callError(c) ==
    IF c.Name \notin KnownMapFuncs THEN "unknown function"
    ELSE IF c.Arg = "VarRef" THEN ""
    ELSE IF c.Arg = "Distinct" /\ c.Name = "count" THEN ""
    ELSE "aggregate call didn't contain a field"

\* Go's integer division a / b, which truncates toward zero (b # 0).
Quo(a, b) ==
    LET abs(x) == IF x < 0 THEN -x ELSE x
        q      == abs(a) \div abs(b)
    IN  IF (a < 0) = (b < 0) THEN q ELSE -q

\* SelectStatement.GroupByInterval: the duration of the statement's GROUP BY
\* time() dimension, 0 without one, or the error of a time() call that does
\* not have one duration for its argument.
GroupByInterval(st) ==
    IF st.IntervalErr # "" THEN [d |-> 0, err |-> st.IntervalErr]
    ELSE [d |-> st.Interval, err |-> ""]

\* The interval arithmetic of Open: intervalSize and numIntervals from the
\* GROUP BY interval d and the query range.
intervalsOf(d, queryTMin, queryTMax) ==
    IF queryTMin = 0 \/ d = 0
    THEN [numIntervals |-> 1, intervalSize |-> queryTMax - queryTMin]
    ELSE LET intervalTop    == Quo(queryTMax, d) * d + d
             intervalBottom == Quo(queryTMin, d) * d
         IN  [numIntervals |-> Quo(intervalTop - intervalBottom, d), intervalSize |-> d]

\* The start of the results' window: queryTMin divided by the interval, the
\* quotient truncated, times the interval.
windowStart(queryTMin, intervalSize) ==
    IF intervalSize > 0 THEN Quo(queryTMin, intervalSize) * intervalSize ELSE queryTMin

\* Measurement.ValidateGroupBy: GROUP BY on a field is an error.
ValidateGroupBy(m, st) ==
    IF \E i \in 1..Len(st.Dimensions) : HasField(m, st.Dimensions[i])
    THEN "can not use field in group by clause" ELSE ""

\* The part of Open after createTagSetsAndFields returned tsf for measurement
\* mm: GROUP BY validation, SLIMIT / SOFFSET, the cursors and their sort.
AggMapperOpenCursors(m4, st, sh, mm, tsf) ==
    LET m5 == [m4 EXCEPT !.selectFields = tsf.selectFields,
                         !.selectTags = tsf.selectTags,
                         !.whereFields = tsf.whereFields]
        built(sl) ==
            [am   |-> [m5 EXCEPT !.cursors = SortCursors(
                          @ \o tagSetCursorsFor(sh, mm.Name, sl.tagSets, FALSE, 0))],
             stmt |-> [st EXCEPT !.SLimit = sl.SLimit],
             err  |-> ""]
        validated(e) ==
            IF e # "" THEN [am |-> m5, stmt |-> st, err |-> e]
            ELSE built(sliceTagSets(tsf.tagSets, st))
    IN  IF tsf.err # "" THEN [am |-> m4, stmt |-> st, err |-> tsf.err]
        ELSE validated(ValidateGroupBy(mm, st))

\* The body of Open's loop over the sources, for the one source src.
AggMapperOpenSource(m4, st, sh, src, mm) ==
    IF ~src.isMeasurement THEN [am |-> m4, stmt |-> st, err |-> "invalid source type"]
    ELSE IF mm = Nil THEN [am |-> m4, stmt |-> st, err |-> ""]
    ELSE AggMapperOpenCursors(m4, st, sh, mm[1], createTagSetsAndFields(mm[1], st))

\* Open's loop over the sources, from source i on.
RECURSIVE AggMapperOpenSources(_, _, _, _, _)
AggMapperOpenSources(m4, st, sh, idx, i) ==
    LET returns(src) == src.isMeasurement /\ Measurement(idx, src.Name) = Nil
        after(r) ==
            IF r.err # "" \/ returns(st.Sources[i]) THEN r
            ELSE AggMapperOpenSources(r.am, r.stmt, sh, idx, i + 1)
    IN  IF i > Len(st.Sources) THEN [am |-> m4, stmt |-> st, err |-> ""]
        ELSE after(AggMapperOpenSource(m4, st, sh, st.Sources[i],
                                       Measurement(idx, st.Sources[i].Name)))

\* tooManyIntervals that lets one interval more through.
tooManyIntervalsLate(numIntervals) == numIntervals > MaxGroupByPoints + 1

\* The ceiling test of Open on the interval count.
tooManyIntervals(numIntervals) == numIntervals > MaxGroupByPoints

\* The part of Open after GroupByInterval returned without error and the
\* interval arithmetic was done: m2 has the query range, intervalSize and
\* numIntervals set.
AggMapperOpenIntervals(m2, st, sh, idx) ==
    LET lim == st.Limit > 0 \/ st.Offset > 0
        limited(m3) ==
            IF tooManyIntervals(m3.numIntervals)
            THEN [am |-> m3, stmt |-> st, err |-> "too many points in the group by interval"]
            ELSE AggMapperOpenSources(
                    [m3 EXCEPT !.queryTMinWindow = windowStart(m3.queryTMin, m3.intervalSize)],
                    st, sh, idx, 1)
    IN  IF lim /\ st.Offset > m2.numIntervals THEN [am |-> m2, stmt |-> st, err |-> ""]
        ELSE limited(IF lim /\ st.Limit < m2.numIntervals
                     THEN [m2 EXCEPT !.numIntervals = st.Limit] ELSE m2)

\* AggMapper.Open for a statement with one source.
AggMapperOpen(m0, st, sh, idx) ==
    LET aggregates == st.Calls
        bad == {i \in 1..Len(aggregates) : callError(aggregates[i]) # ""}
        tr  == TimeRangeAsEpochNano(st.Condition)
        \* The mapper once every call is set up and the query range is set.
        m1  == [m0 EXCEPT !.tx = "open",
                          !.mapFuncs = [i \in 1..Len(aggregates) |-> aggregates[i].Name],
                          !.fieldNames = [i \in 1..Len(aggregates) |-> aggregates[i].Field],
                          !.queryTMin = tr.min, !.queryTMax = tr.max]
        ranged(iv) ==
            AggMapperOpenIntervals(
                [m1 EXCEPT !.intervalSize = iv.intervalSize,
                           !.numIntervals = iv.numIntervals],
                st, sh, idx)
        \* Open returns the error of GroupByInterval before it sets an interval.
        grouped(g) ==
            IF g.err # "" THEN [am |-> m1, stmt |-> st, err |-> g.err]
            ELSE ranged(intervalsOf(g.d, tr.min, tr.max))
        \* Open returns at the call b: the two slices have one slot per call,
        \* filled for the calls before b, and at b the map function is set
        \* unless InitializeMapFunc failed.
        rejected(b) ==
            [am |-> [m0 EXCEPT
                        !.tx = "open",
                        !.mapFuncs =
                            [i \in 1..Len(aggregates) |->
                                IF i < b \/ (i = b /\ aggregates[b].Name \in KnownMapFuncs)
                                THEN aggregates[i].Name ELSE "nil"],
                        !.fieldNames =
                            [i \in 1..Len(aggregates) |->
                                IF i < b THEN aggregates[i].Field ELSE ""]],
             stmt |-> st,
             err |-> callError(aggregates[b])]
    IN  IF bad # {}
        THEN rejected(CHOOSE i \in bad : \A j \in bad : i <= j)
        ELSE grouped(GroupByInterval(st))

\* AggMapper.Open with the outcome of shard.DB().Begin(false).
AggMapperOpenTx(m0, st, sh, idx, begin) ==
    IF begin # "" THEN [am |-> m0, stmt |-> st, err |-> begin]
    ELSE AggMapperOpen(m0, st, sh, idx)

\* nextInterval that never runs out of intervals.
nextIntervalUnbounded(m, st) ==
    LET t  == m.queryTMinWindow + (m.currInterval + st.Offset) * m.intervalSize
        m2 == [m EXCEPT !.currInterval = @ + 1]
    IN  [am |-> m2, start |-> t, end |-> t + m.intervalSize]

\* AggMapper.nextInterval: the mapper with its counter advanced, and the
\* interval (start -1 when there is none).
nextInterval(m, st) ==
    LET t  == m.queryTMinWindow + (m.currInterval + st.Offset) * m.intervalSize
        m2 == [m EXCEPT !.currInterval = @ + 1]
    IN  IF t > m.queryTMax \/ m2.currInterval > m.numIntervals
        THEN [am |-> m2, start |-> -1, end |-> 1]
        ELSE [am |-> m2, start |-> t, end |-> t + m.intervalSize]

\* AggMapper.resetIntervals
resetIntervals(m) == [m EXCEPT !.currInterval = 0]

\* The lower bound NextChunk reads an interval from: the interval start
\* clamped to the query's minimum time.
clampTMin(tmin, queryTMin) == IF tmin < queryTMin THEN queryTMin ELSE tmin

\* The key NextChunk seeks the tag-set cursor to before each map function.
seekKey(tmin, qmin) == tmin

\* A map function pulling from its iterator until it returns no value: the
\* values it was supplied, each with its raw bytes and series filter.
RECURSIVE supplyAll(_, _, _, _, _)
supplyAll(cs, qmin, tmax, selectFields, whereFields) ==
    LET more(r, rest) ==
            [cursors  |-> rest.cursors,
             supplied |-> <<[Time |-> r.key, Value |-> r.value[1],
                             bytes |-> r.bytes[1], filter |-> r.filter]>> \o rest.supplied]
        pulled(r) ==
            IF r.value = Nil THEN [cursors |-> r.cursors, supplied |-> << >>]
            ELSE more(r, supplyAll(r.cursors, qmin, tmax, selectFields, whereFields))
    IN  pulled(tagSetCursorNext(cs, qmin, tmax, selectFields, whereFields))

RECURSIVE SumOf(_, _)
SumOf(supplied, field) ==
    IF supplied = << >> THEN 0
    ELSE Head(supplied).Value[field] + SumOf(Tail(supplied), field)

\* The result of a map function over the values it was supplied; a mean is
\* kept as its count and sum.
mapFunc(name, field, supplied) ==
    IF name = "count" THEN [Count |-> Len(supplied)]
    ELSE IF name = "sum" THEN [Sum |-> SumOf(supplied, field)]
    ELSE [Count |-> Len(supplied), Sum |-> SumOf(supplied, field)]

\* The loop over the map functions with every result put before the earlier
\* ones.
RECURSIVE mapFuncsLoopReversed(_, _, _, _, _, _)
mapFuncsLoopReversed(m, cs, i, tmin, tmax, output) ==
    LET qmin == clampTMin(tmin, m.queryTMin)
        mapped(r) ==
            mapFuncsLoopReversed(m, r.cursors, i + 1, tmin, tmax,
                         [output EXCEPT
                            !.Values = <<mapFunc(m.mapFuncs[i], m.fieldNames[i], r.supplied)>> \o @,
                            !.Supplied = <<r.supplied>> \o @])
    IN  IF i > Len(m.mapFuncs) THEN [cursors |-> cs, output |-> output]
        ELSE mapped(supplyAll(tagSetCursorSeekTo(cs, seekKey(tmin, qmin)), qmin, tmax,
                              <<m.fieldNames[i]>>, m.whereFields))

\* The loop over the map functions as a single shared pass: the tag-set
\* cursor is not sought back to the interval start before a function.
RECURSIVE mapFuncsLoopSharedPass(_, _, _, _, _, _)
mapFuncsLoopSharedPass(m, cs, i, tmin, tmax, output) ==
    LET qmin == clampTMin(tmin, m.queryTMin)
        mapped(r) ==
            mapFuncsLoopSharedPass(m, r.cursors, i + 1, tmin, tmax,
                         [output EXCEPT
                            !.Values = Append(@, mapFunc(m.mapFuncs[i], m.fieldNames[i], r.supplied)),
                            !.Supplied = Append(@, r.supplied)])
    IN  IF i > Len(m.mapFuncs) THEN [cursors |-> cs, output |-> output]
        ELSE mapped(supplyAll(IF i = 1 THEN tagSetCursorSeekTo(cs, seekKey(tmin, qmin)) ELSE cs,
                              qmin, tmax, <<m.fieldNames[i]>>, m.whereFields))

\* The loop of NextChunk over the map functions, from function i on.
RECURSIVE mapFuncsLoop(_, _, _, _, _, _)
mapFuncsLoop(m, cs, i, tmin, tmax, output) ==
    LET qmin == clampTMin(tmin, m.queryTMin)
        mapped(r) ==
            mapFuncsLoop(m, r.cursors, i + 1, tmin, tmax,
                         [output EXCEPT
                            !.Values = Append(@, mapFunc(m.mapFuncs[i], m.fieldNames[i], r.supplied)),
                            !.Supplied = Append(@, r.supplied)])
    IN  IF i > Len(m.mapFuncs) THEN [cursors |-> cs, output |-> output]
        ELSE mapped(supplyAll(tagSetCursorSeekTo(cs, seekKey(tmin, qmin)), qmin, tmax,
                              <<m.fieldNames[i]>>, m.whereFields))

\* AggMapper.NextChunk. Supplied is kept beside Values: per map function, the
\* values it was supplied.
RECURSIVE AggNextChunkLoop(_, _)
AggNextChunkLoop(m, st) ==
    LET ci     == m.currCursorIndex + 1
        cursor == m.cursors[ci]
        done(m2, r) ==
            [am |-> [m2 EXCEPT !.cursors[ci].cursors = r.cursors], output |-> Some(r.output)]
        interval(iv) ==
            IF iv.start < 0
            THEN AggNextChunkLoop([resetIntervals(iv.am) EXCEPT !.currCursorIndex = @ + 1], st)
            ELSE done(iv.am,
                      mapFuncsLoop(iv.am, cursor.cursors, 1, iv.start, iv.end,
                                   [Name |-> cursor.measurement, Tags |-> cursor.tags,
                                    Time |-> iv.start, Values |-> << >>, Supplied |-> << >>]))
    IN  IF m.currCursorIndex = Len(m.cursors) THEN [am |-> m, output |-> Nil]
        ELSE interval(nextInterval(m, st))

AggMapperNextChunk(m, st) == AggNextChunkLoop(m, st)

\* AggMapper.TagSets
AggMapperTagSets(m) == Keys(m.cursors)

\* AggMapper.Close
AggMapperClose(m) == IF m.tx # "nil" THEN [m EXCEPT !.tx = "closed"] ELSE m

\* ---------------------------------------------------------------- inputs

SeriesKeySet == {"s1", "s2", "s3", "s4"}

Point(t, v) == [k |-> t, v |-> v]

P1 == [value |-> 2, other |-> 1]
P2 == [value |-> 1, other |-> 2]

\* Sequences of at most one point, and sequences of at most two points in the
\* order a bucket keeps them (that of the key bytes), with timestamps in times
\* and raw bytes in payloads.
UpToOneAt(times, payloads) ==
    {<< >>} \cup {<<Point(t, v)>> : t \in times, v \in payloads}
UpToTwoAt(times, payloads) ==
    UpToOneAt(times, payloads) \cup
    {<<Point(t1, v1), Point(t2, v2)>> :
        <<t1, t2>> \in {tt \in times \X times : tt[1] # tt[2] /\ AtLeastAsUint64(tt[2], tt[1])},
        v1 \in payloads, v2 \in payloads}

\* The same with timestamps in 0..maxT.
UpToOne(maxT, payloads) == UpToOneAt(0..maxT, payloads)
UpToTwo(maxT, payloads) == UpToTwoAt(0..maxT, payloads)

\* The timestamps 0..maxT and -1, the nanosecond before the epoch.
FromBeforeEpoch(maxT) == {-1} \cup 0..maxT

\* The index: measurement cpu with fields value and other, tag key host, and
\* the tag sets host=a (key 1, series s1 and s2) and host=b (key 2, series s3).
Index ==
    [cpu |-> [Name |-> "cpu", fields |-> {"value", "other"}, tagKeys |-> {"host"},
              tagSets |-> <<[Tags |-> 1, SeriesKeys |-> <<"s1", "s2">>],
                            [Tags |-> 2, SeriesKeys |-> <<"s3">>]>>]]

ShardOf(b1, c2, b3) ==
    [bolt  |-> [k \in SeriesKeySet |-> IF k = "s1" THEN b1 ELSE IF k = "s3" THEN b3 ELSE << >>],
     cache |-> [k \in SeriesKeySet |-> IF k = "s2" THEN c2 ELSE << >>]]

\* Shards for the RawMapper: s1 persisted, s2 cached, s3 with one persisted
\* point or none; the timestamps of s1 and s2 start the nanosecond before the
\* epoch.
RawShards ==
    {ShardOf(b1, c2, b3) :
        b1 \in UpToTwoAt(FromBeforeEpoch(MaxTime), {P1, P2}),
        c2 \in UpToOneAt(FromBeforeEpoch(MaxTime), {P1, P2, Corrupt}),
        b3 \in {<< >>, <<Point(1, [value |-> 2, other |-> 2])>>}}

\* Shards for the AggMapper, with timestamps from the nanosecond before the
\* epoch on.
AggShards ==
    {ShardOf(b1, c2, <<Point(2, [value |-> 2, other |-> 2])>>) :
        b1 \in UpToTwoAt(FromBeforeEpoch(MaxAggTime), {P1, P2}),
        c2 \in UpToOneAt(FromBeforeEpoch(MaxAggTime), {P1, Corrupt})}

Filters == {Nil, Some([field |-> "value", min |-> 1]), Some([field |-> "other", min |-> 1])}

\* A statement over the measurement cpu, GROUP BY host: its SELECT names and
\* calls, the GROUP BY time() interval, the time range and the filter of its
\* condition. IntervalErr and TagSetsErr are the errors GroupByInterval (and
\* Normalize) and Measurement.TagSets return for it, "" for none.
StmtOf(fields, calls, interval, tmin, tmax, filter) ==
    [Sources |-> <<[isMeasurement |-> TRUE, Name |-> "cpu"]>>,
     Fields |-> fields, Calls |-> calls, Dimensions |-> <<"host">>, Interval |-> interval,
     IntervalErr |-> "", TagSetsErr |-> "",
     Condition |-> [tmin |-> tmin, tmax |-> tmax, filter |-> filter],
     SLimit |-> 0, SOffset |-> 0, Limit |-> 0, Offset |-> 0]

\* Query ranges of the raw statements: from 0 with the top cut at 2 or open,
\* from 1, the one instant 2, and from before the epoch.
RawRanges == {<<0, 2>>, <<0, MaxTime + 1>>, <<1, MaxTime + 1>>, <<2, 2>>, <<-1, MaxTime + 1>>}

RawStmts ==
    {StmtOf(f, << >>, 0, r[1], r[2], w) :
        f \in {<<"value">>, <<"value", "other">>}, w \in Filters, r \in RawRanges}

Call(name, field) == [Name |-> name, Field |-> field, Arg |-> "VarRef"]

\* Aggregate statements: GROUP BY time(1h) over the three hours from tmin,
\* or no GROUP BY time over the range from tmin to MaxAggTime; tmin is also
\* taken before the epoch.
AggStmts ==
    {StmtOf(<< >>, <<Call("mean", "value"), Call("count", "value")>>, d, tmin,
            IF d = 0 THEN MaxAggTime ELSE tmin + 3 * Hour - 1, w) :
        d \in {0, Hour}, tmin \in {-Hour - 1} \cup (-1)..(Hour + 1), w \in Filters}

\* The scenario: cpu, host=a, (0,1) and (10,2) persisted, (5,9) cached;
\* SELECT value WHERE time >= 0 AND time <= 10 with chunk size 10, and
\* SELECT mean(value) GROUP BY time(10) over [0, 20), whose last instant is 19.
ScenarioShard ==
    ShardOf(<<Point(0, [value |-> 1]), Point(10, [value |-> 2])>>, << >>, << >>)
ScenarioShardBuffered ==
    [ScenarioShard EXCEPT !.cache["s1"] = <<Point(5, [value |-> 9])>>]

\* The scenario's index: cpu has the one tag set host=a with the series s1.
ScenarioIndex ==
    [cpu |-> [Name |-> "cpu", fields |-> {"value"}, tagKeys |-> {"host"},
              tagSets |-> <<[Tags |-> 1, SeriesKeys |-> <<"s1">>]>>]]

ScenarioRawStmt == StmtOf(<<"value">>, << >>, 0, 0, 10, Nil)
ScenarioAggStmt == StmtOf(<< >>, <<Call("mean", "value")>>, 10, 0, 19, Nil)

\* ---------------------------------------------------------------- the run

InitCommon ==
    /\ phase = "created"
    /\ err = ""
    /\ out = << >>
    /\ eos = FALSE
    /\ closedAgain = FALSE
    /\ walked = << >>
    /\ atOpen = Nil

\* No series cursor is walked on its own.
NoSeriesWalk == walk = Nil

InitRaw ==
    /\ kind = "raw"
    /\ am = NewAggMapper
    /\ \/ /\ shard \in RawShards
          /\ index = Index
          /\ stmt \in RawStmts
          /\ rm \in {NewRawMapper(c) : c \in 0..MaxChunkSize}
       \/ /\ shard = ScenarioShardBuffered
          /\ index = ScenarioIndex
          /\ stmt = ScenarioRawStmt
          /\ rm = NewRawMapper(10)
    /\ NoSeriesWalk

InitAgg ==
    /\ kind = "agg"
    /\ rm = NewRawMapper(0)
    /\ am = NewAggMapper
    /\ \/ /\ shard \in AggShards
          /\ index = Index
          /\ stmt \in AggStmts
       \/ /\ shard = ScenarioShardBuffered
          /\ index = ScenarioIndex
          /\ stmt = ScenarioAggStmt
    /\ NoSeriesWalk

Init == InitCommon /\ (InitRaw \/ InitAgg)

RawOpen ==
    /\ kind = "raw"
    /\ phase = "created"
    /\ LET r == RawMapperOpen(rm, stmt, shard, index)
       IN  /\ rm' = r.rm
           /\ stmt' = r.stmt
           /\ err' = r.err
    /\ phase' = "opened"
    /\ atOpen' = Some(shard)
    /\ UNCHANGED <<shard, index, kind, am, out, eos, closedAgain, walk, walked>>

RawNextChunk ==
    /\ kind = "raw"
    /\ phase = "opened"
    /\ err = ""
    /\ LET r == RawMapperNextChunk(rm)
       IN  /\ rm' = r.rm
           /\ out' = IF r.output = Nil THEN out ELSE Append(out, r.output[1])
           /\ eos' = (eos \/ r.output = Nil)
    /\ UNCHANGED <<shard, index, stmt, kind, am, phase, err, closedAgain, walk, walked, atOpen>>

RawClose ==
    /\ kind = "raw"
    /\ phase # "closed"
    /\ rm' = RawMapperClose(rm)
    /\ phase' = "closed"
    /\ UNCHANGED <<shard, index, stmt, kind, am, err, out, eos, closedAgain, walk, walked, atOpen>>

AggOpen ==
    /\ kind = "agg"
    /\ phase = "created"
    /\ LET r == AggMapperOpen(am, stmt, shard, index)
       IN  /\ am' = r.am
           /\ stmt' = r.stmt
           /\ err' = r.err
    /\ phase' = "opened"
    /\ atOpen' = Some(shard)
    /\ UNCHANGED <<shard, index, kind, rm, out, eos, closedAgain, walk, walked>>

AggNextChunk ==
    /\ kind = "agg"
    /\ phase = "opened"
    /\ err = ""
    /\ LET r == AggMapperNextChunk(am, stmt)
       IN  /\ am' = r.am
           /\ out' = IF r.output = Nil THEN out ELSE Append(out, r.output[1])
           /\ eos' = (eos \/ r.output = Nil)
    /\ UNCHANGED <<shard, index, stmt, kind, rm, phase, err, closedAgain, walk, walked, atOpen>>

AggClose ==
    /\ kind = "agg"
    /\ phase # "closed"
    /\ am' = AggMapperClose(am)
    /\ phase' = "closed"
    /\ UNCHANGED <<shard, index, stmt, kind, rm, err, out, eos, closedAgain, walk, walked, atOpen>>

Next == RawOpen \/ RawNextChunk \/ RawClose \/ AggOpen \/ AggNextChunk \/ AggClose

Spec == Init /\ [][Next]_vars

\* ---------------------------------------------------------------- several sources

\* An index with the measurements cpu (tag sets host=a with the series s1 and
\* s2 in the order given, host=b with s3) and mem (tag set host=a with s4).
SourcesIndex(seriesKeys) ==
    [cpu |-> [Name |-> "cpu", fields |-> {"value", "other"}, tagKeys |-> {"host"},
              tagSets |-> <<[Tags |-> 1, SeriesKeys |-> seriesKeys],
                            [Tags |-> 2, SeriesKeys |-> <<"s3">>]>>],
     mem |-> [Name |-> "mem", fields |-> {"value", "other"}, tagKeys |-> {"host"},
              tagSets |-> <<[Tags |-> 1, SeriesKeys |-> <<"s4">>]>>]]

SourcesShards ==
    {[bolt  |-> [k \in SeriesKeySet |->
                    IF k = "s1" THEN b1 ELSE IF k = "s3" THEN b3 ELSE IF k = "s4" THEN b4 ELSE << >>],
      cache |-> [k \in SeriesKeySet |-> IF k = "s2" THEN c2 ELSE << >>]] :
        b1 \in {<< >>, <<Point(1, P1)>>, <<Point(1, P1), Point(MaxTime, P2)>>},
        c2 \in {<< >>, <<Point(MaxTime, P1)>>},
        b3 \in {<< >>, <<Point(1, P1)>>},
        b4 \in {<< >>, <<Point(1, P1), Point(MaxTime, P1)>>}}

\* The FROM clauses: the measurements in either order, and mem alone.
SourceLists ==
    LET src(n) == [isMeasurement |-> TRUE, Name |-> n]
    IN  {<<src("cpu"), src("mem")>>, <<src("mem"), src("cpu")>>, <<src("mem")>>}

InitSources ==
    /\ shard \in SourcesShards
    /\ index \in {SourcesIndex(<<"s1", "s2">>), SourcesIndex(<<"s2", "s1">>)}
    /\ am = NewAggMapper
    /\ \/ /\ kind = "raw"
          /\ rm = NewRawMapper(1)
          /\ stmt \in {[StmtOf(<<"value">>, << >>, 0, 1, MaxTime + 1, Nil) EXCEPT !.Sources = l] :
                          l \in SourceLists}
       \/ /\ kind = "agg"
          /\ rm = NewRawMapper(0)
          /\ stmt \in {[StmtOf(<< >>, <<Call("count", "value")>>, Hour, Hour, 3 * Hour - 1, Nil)
                            EXCEPT !.Sources = l] : l \in SourceLists}
    /\ NoSeriesWalk

SourcesInit == InitCommon /\ InitSources

SpecSources == SourcesInit /\ [][Next]_vars

\* ---------------------------------------------------------------- a series cursor on its own

\* Sequences of at most two cached points in the order they were written,
\* which need not be the order of their timestamps.
CachedUpToTwo(times, payloads) ==
    UpToOneAt(times, payloads) \cup
    {<<Point(t1, v1), Point(t2, v2)>> :
        t1 \in times, t2 \in times, v1 \in payloads, v2 \in payloads}

\* Shards whose series s1 has persisted points, cached points or both.
SeriesShards ==
    {[bolt  |-> [k \in SeriesKeySet |-> IF k = "s1" THEN b1 ELSE << >>],
      cache |-> [k \in SeriesKeySet |-> IF k = "s1" THEN c1 ELSE << >>]] :
        b1 \in UpToTwoAt(FromBeforeEpoch(MaxTime), {P1}),
        c1 \in CachedUpToTwo(FromBeforeEpoch(MaxTime), {P2})}

\* A series cursor over the series s1, as Open makes it for a series that has
\* a shardCursor.
InitSeries ==
    /\ kind = "series"
    /\ shard \in {sh \in SeriesShards : createCursorForSeries(sh, "s1") # Nil}
    /\ index = Index
    /\ stmt = ScenarioRawStmt
    /\ rm = NewRawMapper(0)
    /\ am = NewAggMapper
    /\ walk = Some(newSeriesCursor(createCursorForSeries(shard, "s1")[1], Nil))

\* One call of seriesCursor.Next by a caller that stops at the first nil
\* value.
SeriesNext ==
    /\ kind = "series"
    /\ ~eos
    /\ LET r == seriesCursorNext(walk[1])
       IN  /\ walk' = Some(r.mc)
           /\ walked' = IF r.value = Nil THEN walked
                         ELSE Append(walked, Point(r.key, r.value[1]))
           /\ eos' = (r.value = Nil)
    /\ UNCHANGED <<shard, index, stmt, kind, rm, am, phase, err, out, closedAgain, atOpen>>

SeriesInit == InitCommon /\ InitSeries

SpecSeries == SeriesInit /\ [][SeriesNext]_vars

\* ---------------------------------------------------------------- a series cursor under any calls

\* Shards whose series s1 has up to three entries, from timestamp 0 or 1 on
\* or with the timestamp -1 last, where its key bytes put it.
CursorShards ==
    {[bolt  |-> [k \in SeriesKeySet |-> IF k = "s1" THEN b1 ELSE << >>],
      cache |-> [k \in SeriesKeySet |-> IF k = "s1" THEN c1 ELSE << >>]] :
        b1 \in {<< >>, <<Point(1, P1)>>, <<Point(1, P1), Point(MaxTime, P1)>>,
                <<Point(0, P1), Point(MaxTime, P1)>>, <<Point(-1, P1)>>,
                <<Point(1, P1), Point(-1, P1)>>},
        c1 \in {<< >>, <<Point(MaxTime + 1, P2)>>}}

InitCursor ==
    /\ kind = "cursor"
    /\ shard \in {sh \in CursorShards : createCursorForSeries(sh, "s1") # Nil}
    /\ index = Index
    /\ stmt = ScenarioRawStmt
    /\ rm = NewRawMapper(0)
    /\ am = NewAggMapper
    /\ walk = Some(newSeriesCursor(createCursorForSeries(shard, "s1")[1], Nil))

\* The calls, each appending to walked what it was (op), the timestamp and the
\* value it returned (for SeekTo: the timestamp sought, and no value).
Called(op, k, v) == [op |-> op, k |-> k, v |-> v]

CursorPeek ==
    /\ kind = "cursor"
    /\ Len(walked) < MaxCalls
    /\ LET r == seriesCursorPeek(walk[1])
       IN  /\ walk' = Some(r.mc)
           /\ walked' = Append(walked, Called("Peek", r.key, r.value))
    /\ UNCHANGED <<shard, index, stmt, kind, rm, am, phase, err, out, eos, closedAgain, atOpen>>

CursorNext ==
    /\ kind = "cursor"
    /\ Len(walked) < MaxCalls
    /\ LET r == seriesCursorNext(walk[1])
       IN  /\ walk' = Some(r.mc)
           /\ walked' = Append(walked, Called("Next", r.key, r.value))
    /\ UNCHANGED <<shard, index, stmt, kind, rm, am, phase, err, out, eos, closedAgain, atOpen>>

CursorSeekTo ==
    /\ kind = "cursor"
    /\ Len(walked) < MaxCalls
    /\ \E t \in (-1)..(MaxTime + 2) :
          /\ walk' = Some(seriesCursorSeekTo(walk[1], t))
          /\ walked' = Append(walked, Called("SeekTo", t, Nil))
    /\ UNCHANGED <<shard, index, stmt, kind, rm, am, phase, err, out, eos, closedAgain, atOpen>>

CursorInit == InitCommon /\ InitCursor

NextCursor == CursorPeek \/ CursorNext \/ CursorSeekTo

SpecCursor == CursorInit /\ [][NextCursor]_vars

\* ---------------------------------------------------------------- a tag-set cursor on its own

\* Shards for the tag set host=a: s1 persisted, s2 cached, with points that
\* decode and points that do not.
TagSetShards ==
    {ShardOf(b1, c2, << >>) :
        b1 \in UpToTwoAt(FromBeforeEpoch(MaxTime), {P1, Corrupt}),
        c2 \in UpToOneAt(FromBeforeEpoch(MaxTime), {P2, Corrupt})}

\* Statements over every window tmin, tmax, also with tmin >= tmax.
TagSetStmts ==
    {StmtOf(f, << >>, 0, tmin, tmax, w) :
        f \in {<<"value">>, <<"value", "other">>},
        tmin \in (-1)..MaxTime, tmax \in 0..(MaxTime + 1),
        w \in {Nil, Some([field |-> "other", min |-> 1])}}

\* The where fields Open hands to Next: those createTagSetsAndFields returns
\* for the measurement cpu, the names of the WHERE clause that are fields of
\* it, or its error.
WhereFieldsOf(st) ==
    LET resolved(r) ==
            IF r.err # "" THEN [err |-> r.err, whereFields |-> << >>]
            ELSE [err |-> "", whereFields |-> r.whereFields]
    IN  resolved(createTagSetsAndFields(Index["cpu"], st))

\* The member series cursors of the tag-set cursor of host=a, as Open builds
\* them: sought to tmin (RawMapper) or not positioned (AggMapper).
InitTagSet ==
    /\ kind = "tagset"
    /\ shard \in TagSetShards
    /\ index = Index
    /\ stmt \in TagSetStmts
    /\ rm = NewRawMapper(0)
    /\ am = NewAggMapper
    /\ \E seek \in BOOLEAN :
          walk = Some(seriesCursorsFor(shard,
                          TagSets(Index["cpu"], stmt, stmt.Dimensions).tagSets[1], 1, seek, stmt.Condition.tmin))

\* The lookahead of every member cursor: what its Peek returns.
Lookaheads(cs) ==
    [j \in 1..Len(cs) |->
        LET look(p) == [k |-> p.key, v |-> p.value] IN look(seriesCursorPeek(cs[j]))]

\* One call of tagSetCursor.Next over the statement's window by a caller that
\* stops at the first nil value. walked gets the timestamp and value
\* returned, the raw bytes the value was decoded from, and the member cursors
\* with their lookaheads as they were at the call.
TagSetNext ==
    /\ kind = "tagset"
    /\ ~eos
    /\ LET r == tagSetCursorNext(walk[1], stmt.Condition.tmin, stmt.Condition.tmax,
                                 stmt.Fields, WhereFieldsOf(stmt).whereFields)
       IN  /\ walk' = Some(r.cursors)
           /\ walked' = Append(walked, [k |-> r.key, v |-> r.value, bytes |-> r.bytes,
                                        look |-> Lookaheads(walk[1]),
                                        before |-> walk[1]])
           /\ eos' = (r.value = Nil)
    /\ UNCHANGED <<shard, index, stmt, kind, rm, am, phase, err, out, closedAgain, atOpen>>

TagSetInit == InitCommon /\ InitTagSet

SpecTagSet == TagSetInit /\ [][TagSetNext]_vars

\* ---------------------------------------------------------------- a concurrent writer

\* The mapper m in front of the shard sh: each of its shardCursors follows
\* what it sees of the shard.
MapperOver(m, sh) ==
    LET series(cs) == [j \in 1..Len(cs) |-> [cs[j] EXCEPT !.cursor = shardCursorOver(@, sh)]]
    IN  [m EXCEPT !.cursors = [i \in 1..Len(m.cursors) |->
                                  [m.cursors[i] EXCEPT !.cursors = series(@)]]]

\* The series the writer writes to, and the timestamps of its points.
WrittenSeries == {"s1", "s2"}
WriteTimes == {1, MaxTime}

\* The shard after one step of the writer: a point appended to the cache of a
\* series, or the cache of a series flushed to its bucket.
Writes(sh) ==
    {[sh EXCEPT !.cache[k] = Append(@, Point(t, P2))] :
        k \in {k2 \in WrittenSeries : Len(sh.cache[k2]) < MaxCached}, t \in WriteTimes}
    \cup
    {[sh EXCEPT !.bolt[k] = MergedEntries(@, sh.cache[k]), !.cache[k] = << >>] :
        k \in {k2 \in WrittenSeries : sh.cache[k2] # << >>}}

\* One step of the writer between the mapper's Open and its Close.
Write ==
    /\ phase = "opened"
    /\ \E sh2 \in Writes(shard) :
          /\ shard' = sh2
          /\ rm' = MapperOver(rm, sh2)
          /\ am' = MapperOver(am, sh2)
    /\ UNCHANGED <<index, stmt, kind, phase, err, out, eos, closedAgain, walk, walked, atOpen>>

InitWriter ==
    /\ shard \in {ShardOf(b1, c2, << >>) :
                     b1 \in {<< >>, <<Point(1, P1)>>}, c2 \in {<< >>, <<Point(MaxTime, P1)>>}}
    /\ index = Index
    /\ am = NewAggMapper
    /\ \/ /\ kind = "raw"
          /\ rm = NewRawMapper(1)
          /\ stmt = StmtOf(<<"value">>, << >>, 0, 1, MaxTime + 1, Nil)
       \/ /\ kind = "agg"
          /\ rm = NewRawMapper(0)
          /\ stmt = StmtOf(<< >>, <<Call("count", "value")>>, Hour, 0, 2 * Hour - 1, Nil)
    /\ NoSeriesWalk

NextWriter == Next \/ Write

WriterInit == InitCommon /\ InitWriter

SpecWriter == WriterInit /\ [][NextWriter]_vars

\* ---------------------------------------------------------------- a flush during Open

\* The shard after the cache of series k was flushed: its points are moved
\* from the cache into the bucket.
FlushOf(sh, k) == [sh EXCEPT !.bolt[k] = MergedEntries(@, sh.cache[k]), !.cache[k] = << >>]

\* What Open's cursors are created over after the read transaction took the
\* snapshot snap and the shard has become sh: the buckets of the snapshot and
\* the cache as it is now.
TxView(snap, sh) ==
    [bolt  |-> [k \in SeriesKeySet |-> txBucket(snap.bolt[k], sh.bolt[k])],
     cache |-> sh.cache]

\* Shards whose series s1 and s2 hold points written before Open, persisted
\* or still cached.
FlushShards ==
    {[bolt  |-> [k \in SeriesKeySet |-> IF k = "s1" THEN b1 ELSE << >>],
      cache |-> [k \in SeriesKeySet |-> IF k = "s1" THEN c1 ELSE IF k = "s2" THEN c2 ELSE << >>]] :
        b1 \in {<< >>, <<Point(1, P1)>>},
        c1 \in {<< >>, <<Point(MaxTime, P2)>>},
        c2 \in {<< >>, <<Point(1, P1)>>, <<Point(1, P1), Point(MaxTime, P2)>>}}

InitFlush ==
    /\ kind = "raw"
    /\ shard \in FlushShards
    /\ index = Index
    /\ stmt = StmtOf(<<"value">>, << >>, 0, 1, MaxTime + 1, Nil)
    /\ rm \in {NewRawMapper(1), NewRawMapper(MaxChunkSize + 1)}
    /\ am = NewAggMapper
    /\ NoSeriesWalk

\* The first step of Open: the read transaction is begun, sees the buckets as
\* they are now (atOpen) and is stored in the mapper; when Begin returns an
\* error Open returns it.
OpenBegin ==
    /\ kind = "raw"
    /\ phase = "created"
    /\ \E begin \in {"", "database not open"} :
          IF begin # ""
          THEN /\ rm' = rm
               /\ err' = begin
               /\ phase' = "opened"
          ELSE /\ rm' = [rm EXCEPT !.tx = "open"]
               /\ err' = err
               /\ phase' = "begun"
    /\ atOpen' = Some(shard)
    /\ UNCHANGED <<shard, index, stmt, kind, am, out, eos, closedAgain, walk, walked>>

\* A flush of one series' cache, before Open or between the begin of its
\* read transaction and the creation of its cursors.
Flush ==
    /\ phase \in {"created", "begun"}
    /\ \E k \in {k2 \in SeriesKeySet : shard.cache[k2] # << >>} : shard' = FlushOf(shard, k)
    /\ UNCHANGED <<index, stmt, kind, rm, am, phase, err, out, eos, closedAgain, walk, walked,
                   atOpen>>

\* The rest of Open: the cursors are created over the transaction's buckets
\* and the shard's cache as it is now.
OpenCursors ==
    /\ kind = "raw"
    /\ phase = "begun"
    /\ LET r == RawMapperOpen(rm, stmt, TxView(atOpen[1], shard), index)
       IN  /\ rm' = r.rm
           /\ stmt' = r.stmt
           /\ err' = r.err
    /\ phase' = "opened"
    /\ UNCHANGED <<shard, index, kind, am, out, eos, closedAgain, walk, walked, atOpen>>

NextFlush == OpenBegin \/ Flush \/ OpenCursors \/ RawNextChunk \/ RawClose

FlushInit == InitCommon /\ InitFlush

SpecFlush == FlushInit /\ [][NextFlush]_vars

\* ---------------------------------------------------------------- a caller that keeps calling

\* The most chunks a caller takes from one mapper.
MaxChunks == 10

\* NextChunk as called by a caller that has taken fewer than MaxChunks chunks.
RawNextChunkCounted == Len(out) < MaxChunks /\ RawNextChunk
AggNextChunkCounted == Len(out) < MaxChunks /\ AggNextChunk

\* Shards with a point the filter value > 1 rejects, a cached point that does
\* not decode, and points outside the window of a query from MaxTime on.
CallingShards ==
    {ShardOf(<<Point(1, P1), Point(MaxTime, P2)>>, c2, <<Point(1, P1)>>) :
        c2 \in {<< >>, <<Point(1, Corrupt)>>, <<Point(MaxTime, P1)>>}}

CallingFilters == {Nil, Some([field |-> "value", min |-> 1])}

InitCalling ==
    /\ shard \in CallingShards
    /\ index = Index
    /\ am = NewAggMapper
    /\ \/ /\ kind = "raw"
          /\ stmt \in {StmtOf(<<"value">>, << >>, 0, tmin, MaxTime + 1, w) :
                          tmin \in {1, MaxTime}, w \in CallingFilters}
          /\ rm \in {NewRawMapper(0), NewRawMapper(1)}
       \/ /\ kind = "agg"
          /\ stmt \in {StmtOf(<< >>, <<Call("sum", "value"), Call("count", "value")>>, d, tmin,
                                IF d = 0 THEN MaxAggTime ELSE tmin + 3 * Hour - 1, w) :
                          d \in {0, Hour}, tmin \in {1, MaxTime}, w \in CallingFilters}
          /\ rm = NewRawMapper(0)
    /\ NoSeriesWalk

CallingInit == InitCommon /\ InitCalling

NextCalling == RawOpen \/ RawNextChunkCounted \/ AggOpen \/ AggNextChunkCounted

\* A NextChunk call is due: the mapper is open, the end of the stream has not
\* been returned and the caller has taken fewer than MaxChunks chunks. Such a
\* call appends a chunk or returns the end of the stream, so this is
\* ENABLED <<RawNextChunkCounted \/ AggNextChunkCounted>>_vars, and a step
\* that changes the state from where a call is due is that call.
CallDue == phase = "opened" /\ err = "" /\ ~eos /\ Len(out) < MaxChunks

\* The caller of an opened mapper calls NextChunk again until the end of the
\* stream: weak fairness of the NextChunk calls, with ENABLED written as
\* CallDue.
CallerKeepsCalling == []<>(~CallDue) \/ []<><<CallDue>>_vars

SpecCalling == CallingInit /\ [][NextCalling]_vars /\ CallerKeepsCalling

\* ---------------------------------------------------------------- calls in any order

\* Indexes: cpu with two tag sets, cpu with the one tag set host=a, and an
\* index that has the measurement mem but no measurement cpu.
OneTagSetIndex ==
    [cpu |-> [Name |-> "cpu", fields |-> {"value", "other"}, tagKeys |-> {"host"},
              tagSets |-> <<[Tags |-> 1, SeriesKeys |-> <<"s1", "s2">>]>>]]
NoCpuIndex ==
    [mem |-> [Name |-> "mem", fields |-> {"value", "other"}, tagKeys |-> {"host"},
              tagSets |-> <<[Tags |-> 1, SeriesKeys |-> <<"s4">>]>>]]
CallsIndexes == {Index, OneTagSetIndex, NoCpuIndex}

CallsShards ==
    {ShardOf(b1, << >>, <<Point(1, P1)>>) :
        b1 \in {<<Point(1, P1)>>, <<Point(1, P1), Point(MaxTime, P2)>>}}

\* SLIMIT and SOFFSET of the statements: none, a limit beyond the tag sets,
\* a limit with an offset, an offset beyond the tag sets.
SeriesLimits == {<<0, 0>>, <<2, 0>>, <<1, 1>>, <<1, 3>>}

\* Statements that fail validation, for either mapper: a source that is not a
\* measurement, a name that is neither field nor tag in SELECT or in WHERE, a
\* condition Measurement.TagSets returns an error for.
Invalidated(st) ==
    {[st EXCEPT !.Sources = <<[isMeasurement |-> FALSE, Name |-> "cpu"]>>],
     [st EXCEPT !.Condition.filter = Some([field |-> "nope", min |-> 1])],
     [st EXCEPT !.TagSetsErr = "invalid expression"]}

CallsRawStmts ==
    LET base == StmtOf(<<"value">>, << >>, 0, 1, MaxTime + 1, Nil)
    IN  {[base EXCEPT !.SLimit = l[1], !.SOffset = l[2]] : l \in SeriesLimits}
        \cup Invalidated(base)
        \cup {[base EXCEPT !.Fields = <<"host">>], [base EXCEPT !.Fields = <<"nope">>]}

\* The aggregate statements: GROUP BY time(1h) over two hours with SLIMIT and
\* SOFFSET; the statements that fail validation, one of them by a time()
\* dimension of two arguments; and GROUP BY time(1) over MaxGroupByPoints + 1
\* instants, alone, with LIMIT 1, with OFFSET 1 and with an OFFSET beyond the
\* intervals.
CallsAggStmts ==
    LET base == StmtOf(<< >>, <<Call("count", "value")>>, Hour, Hour, 3 * Hour - 1, Nil)
        wide == StmtOf(<< >>, <<Call("count", "value")>>, 1, 1, MaxGroupByPoints + 1, Nil)
    IN  {[base EXCEPT !.SLimit = l[1], !.SOffset = l[2]] : l \in SeriesLimits}
        \cup Invalidated(base)
        \cup {[base EXCEPT !.Calls = <<Call("count", "nope")>>],
              [base EXCEPT !.Dimensions = <<"value">>],
              [base EXCEPT !.Calls = <<[Call("count", "value") EXCEPT !.Arg = "Number"]>>],
              [base EXCEPT !.Calls = <<Call("median", "value")>>],
              [base EXCEPT !.IntervalErr = "time dimension expected one argument"]}
        \cup {wide, [wide EXCEPT !.Limit = 1], [wide EXCEPT !.Offset = 1],
              [wide EXCEPT !.Offset = MaxGroupByPoints + 2]}

InitCalls ==
    /\ shard \in CallsShards
    /\ index \in CallsIndexes
    /\ am = NewAggMapper
    /\ \/ /\ kind = "raw"
          /\ rm = NewRawMapper(1)
          /\ stmt \in CallsRawStmts
       \/ /\ kind = "agg"
          /\ rm = NewRawMapper(0)
          /\ stmt \in CallsAggStmts
    /\ NoSeriesWalk

\* NextChunk on a mapper that is not open: never opened, opened with an error,
\* or closed with every tag-set cursor behind it, so that the call reads no
\* cursor of the rolled-back transaction.
RawNextChunkNotOpen ==
    /\ kind = "raw"
    /\ \/ phase = "created"
       \/ phase = "opened" /\ err # ""
       \/ phase = "closed" /\ rm.currCursorIndex = Len(rm.cursors)
    /\ LET r == RawMapperNextChunk(rm)
       IN  /\ rm' = r.rm
           /\ out' = IF r.output = Nil THEN out ELSE Append(out, r.output[1])
           /\ eos' = (eos \/ r.output = Nil)
    /\ UNCHANGED <<shard, index, stmt, kind, am, phase, err, closedAgain, walk, walked, atOpen>>

AggNextChunkNotOpen ==
    /\ kind = "agg"
    /\ \/ phase = "created"
       \/ phase = "opened" /\ err # ""
       \/ phase = "closed" /\ am.currCursorIndex = Len(am.cursors)
    /\ LET r == AggMapperNextChunk(am, stmt)
       IN  /\ am' = r.am
           /\ out' = IF r.output = Nil THEN out ELSE Append(out, r.output[1])
           /\ eos' = (eos \/ r.output = Nil)
    /\ UNCHANGED <<shard, index, stmt, kind, rm, phase, err, closedAgain, walk, walked, atOpen>>

\* The second Close of a mapper.
RawCloseAgain ==
    /\ kind = "raw"
    /\ phase = "closed"
    /\ ~closedAgain
    /\ rm' = RawMapperClose(rm)
    /\ closedAgain' = TRUE
    /\ UNCHANGED <<shard, index, stmt, kind, am, phase, err, out, eos, walk, walked, atOpen>>

AggCloseAgain ==
    /\ kind = "agg"
    /\ phase = "closed"
    /\ ~closedAgain
    /\ am' = AggMapperClose(am)
    /\ closedAgain' = TRUE
    /\ UNCHANGED <<shard, index, stmt, kind, rm, phase, err, out, eos, walk, walked, atOpen>>

NextCalls ==
    \/ Next
    \/ RawNextChunkNotOpen
    \/ AggNextChunkNotOpen
    \/ RawCloseAgain
    \/ AggCloseAgain

CallsInit == InitCommon /\ InitCalls

SpecCalls == CallsInit /\ [][NextCalls]_vars

\* ---------------------------------------------------------------- series limits

\* SLIMIT runs over 0..MaxSLimit and SOFFSET over 0..MaxSLimit + 1, over a
\* measurement of one, two or three tag sets, and over the FROM clauses of
\* the two measurements cpu (two tag sets) and mem (one).
MaxSLimit == 3

ThreeTagSetIndex ==
    [cpu |-> [Name |-> "cpu", fields |-> {"value", "other"}, tagKeys |-> {"host"},
              tagSets |-> <<[Tags |-> 1, SeriesKeys |-> <<"s1", "s2">>],
                            [Tags |-> 2, SeriesKeys |-> <<"s3">>],
                            [Tags |-> 3, SeriesKeys |-> <<"s4">>]>>]]

LimitsStmts(base) ==
    {[base EXCEPT !.SLimit = l, !.SOffset = o] : l \in 0..MaxSLimit, o \in 0..(MaxSLimit + 1)}

InitLimits ==
    /\ shard \in CallsShards
    /\ am = NewAggMapper
    /\ \E sources \in SourceLists, base \in
            {StmtOf(<<"value">>, << >>, 0, 1, MaxTime + 1, Nil),
             StmtOf(<< >>, <<Call("count", "value")>>, Hour, Hour, 3 * Hour - 1, Nil)} :
          /\ kind = IF base.Calls = << >> THEN "raw" ELSE "agg"
          /\ rm = NewRawMapper(IF base.Calls = << >> THEN 1 ELSE 0)
          /\ \/ /\ index \in {OneTagSetIndex, Index, ThreeTagSetIndex}
                /\ stmt \in LimitsStmts(base)
             \/ /\ index = SourcesIndex(<<"s1", "s2">>)
                /\ stmt \in LimitsStmts([base EXCEPT !.Sources = sources])
    /\ NoSeriesWalk

LimitsInit == InitCommon /\ InitLimits

SpecLimits == LimitsInit /\ [][Next]_vars

\* ---------------------------------------------------------------- interval limits

\* LIMIT runs over 0..MaxIntervalLimit and OFFSET over 0..MaxIntervalLimit + 1.
MaxIntervalLimit == 3

\* Aggregate statements over two hours from tmin, after the epoch or before
\* it, aligned to the hour or not, with GROUP BY time(1h) or without GROUP BY time, under every LIMIT and
\* OFFSET.
IntervalsStmts ==
    {[StmtOf(<< >>, <<Call("count", "value")>>, d, tmin, tmin + 2 * Hour - 1, Nil)
         EXCEPT !.Limit = l, !.Offset = o] :
        d \in {0, Hour}, tmin \in {-Hour - 1, -1, Hour, Hour + 1},
        l \in 0..MaxIntervalLimit, o \in 0..(MaxIntervalLimit + 1)}

InitIntervals ==
    /\ kind = "agg"
    /\ shard \in CallsShards
    /\ index = Index
    /\ stmt \in IntervalsStmts
    /\ rm = NewRawMapper(0)
    /\ am = NewAggMapper
    /\ NoSeriesWalk

NextIntervals == AggOpen \/ AggNextChunk \/ AggClose

IntervalsInit == InitCommon /\ InitIntervals

SpecIntervals == IntervalsInit /\ [][NextIntervals]_vars

\* ---------------------------------------------------------------- tag-set resolution

\* The names a statement may reference: the fields value and other, the tag
\* key host, and a name the measurement does not know.
ResolveNames == {"value", "other", "host", "nope"}

\* Statements with up to two SELECT names, with or without a WHERE name
\* besides time, with or without GROUP BY host, with or without a dimension
\* Normalize returns an error for, with or without a condition
\* Measurement.TagSets returns an error for.
ResolveStmts ==
    {[StmtOf(f, << >>, 0, 1, MaxTime + 1, w) EXCEPT
          !.Dimensions = d, !.IntervalErr = ne, !.TagSetsErr = te] :
        f \in {<< >>} \cup {<<n>> : n \in ResolveNames}
               \cup {<<n1, n2>> : n1 \in ResolveNames, n2 \in ResolveNames},
        w \in {Nil} \cup {Some([field |-> n, min |-> 1]) : n \in ResolveNames},
        d \in {<< >>, <<"host">>},
        ne \in {"", "time dimension expected one argument"},
        te \in {"", "invalid expression"}}

\* The measurement cpu, and cpu with other both a field and a tag key.
InitResolve ==
    /\ kind = "resolve"
    /\ shard \in CallsShards
    /\ index \in {Index, [Index EXCEPT !["cpu"].tagKeys = {"host", "other"}]}
    /\ stmt \in ResolveStmts
    /\ rm = NewRawMapper(0)
    /\ am = NewAggMapper
    /\ NoSeriesWalk

\* createTagSetsAndFields applied to the measurement and the statement;
\* walked gets what it returned.
Resolve ==
    /\ kind = "resolve"
    /\ walked = << >>
    /\ walked' = <<createTagSetsAndFields(index["cpu"], stmt)>>
    /\ UNCHANGED <<shard, index, stmt, kind, rm, am, phase, err, out, eos, closedAgain,
                   walk, atOpen>>

ResolveInit == InitCommon /\ InitResolve

SpecResolve == ResolveInit /\ [][Resolve]_vars

\* ---------------------------------------------------------------- the read transaction

\* What shard.DB().Begin(false) returns to Open: nil, or the error of a
\* database that is not open.
BeginErrors == {"", "database not open"}

RawOpenTx ==
    /\ kind = "raw"
    /\ phase = "created"
    /\ \E begin \in BeginErrors :
          LET r == RawMapperOpenTx(rm, stmt, shard, index, begin)
          IN  /\ rm' = r.rm
              /\ stmt' = r.stmt
              /\ err' = r.err
    /\ phase' = "opened"
    /\ atOpen' = Some(shard)
    /\ UNCHANGED <<shard, index, kind, am, out, eos, closedAgain, walk, walked>>

AggOpenTx ==
    /\ kind = "agg"
    /\ phase = "created"
    /\ \E begin \in BeginErrors :
          LET r == AggMapperOpenTx(am, stmt, shard, index, begin)
          IN  /\ am' = r.am
              /\ stmt' = r.stmt
              /\ err' = r.err
    /\ phase' = "opened"
    /\ atOpen' = Some(shard)
    /\ UNCHANGED <<shard, index, kind, rm, out, eos, closedAgain, walk, walked>>

NextTx ==
    \/ RawOpenTx
    \/ RawNextChunk
    \/ RawClose
    \/ AggOpenTx
    \/ AggNextChunk
    \/ AggClose
    \/ RawCloseAgain
    \/ AggCloseAgain

SpecTx == CallsInit /\ [][NextTx]_vars

\* ---------------------------------------------------------------- properties

\* The tag sets of the queried measurement, and the member series of one.
TagSetsOfIndex == index["cpu"].tagSets
TagKeys == {TagSetsOfIndex[i].Tags : i \in 1..Len(TagSetsOfIndex)}
SeriesOf(k) ==
    LET t == CHOOSE t \in {TagSetsOfIndex[i] : i \in 1..Len(TagSetsOfIndex)} : t.Tags = k
    IN  {t.SeriesKeys[i] : i \in 1..Len(t.SeriesKeys)}

\* The stored points of a series, each once.
PointsOf(key) ==
    LET e == MergedEntries(shard.bolt[key], shard.cache[key])
    IN  {e[i] : i \in 1..Len(e)}

\* A point decodes for the select fields and passes the series filter.
Decodes(bytes, selectFields) ==
    /\ "corrupt" \notin DOMAIN bytes
    /\ Len(selectFields) = 1 => selectFields[1] \in DOMAIN bytes
Passes(filter, bytes) ==
    filter = Nil \/ ("corrupt" \notin DOMAIN bytes /\ Eval(filter[1], bytes) = Some(TRUE))

\* The values delivered for tag set k over the chunks cs, in delivery order.
RECURSIVE Delivered(_, _)
Delivered(cs, k) ==
    IF cs = << >> THEN << >>
    ELSE (IF Head(cs).Tags = k
          THEN [i \in 1..Len(Head(cs).Values) |->
                   [Time |-> Head(cs).Values[i].Time, bytes |-> Head(cs).Origin[i].bytes]]
          ELSE << >>) \o Delivered(Tail(cs), k)

NonDecreasing(d) == \A i \in 1..(Len(d) - 1) : d[i].Time <= d[i + 1].Time

Count(d, x) == Cardinality({i \in 1..Len(d) : d[i] = x})

\* The delivered values d are exactly the points e, each once.
ExactlyOnce(d, e) ==
    /\ Len(d) = Cardinality(e)
    /\ \A x \in e :
          Count(d, [Time |-> x.p.k, bytes |-> x.p.v]) = Cardinality({y \in e : y.p = x.p})

\* The query window of a tag-set cursor read from tmin up to tmax.
InWindow(t, tmin, tmax) == t >= tmin /\ (t = tmin \/ t < tmax)

\* C1: the timestamps of the values a RawMapper delivers for one tag set, in
\* delivery order within and across chunks, are non-decreasing.
C1_TimestampsNonDecreasing ==
    kind = "raw" => \A k \in TagKeys : NonDecreasing(Delivered(out, k))
C1_Witness ==
    /\ kind = "raw"
    /\ \E i \in 1..(Len(out) - 1) :
          /\ out[i].Tags = out[i + 1].Tags
          /\ out[i].Values[1].Time < out[i + 1].Values[1].Time
          /\ Len(Delivered(out, out[i].Tags)) >= 3

\* C2: a chunk of the RawMapper carries the name and tags of one tag-set
\* cursor and holds only values read from that cursor.
C2_ChunkOfOneTagSet ==
    kind = "raw" =>
        \A c \in 1..Len(out) :
            /\ \E j \in 1..Len(rm.cursors) :
                  rm.cursors[j].tags = out[c].Tags /\ rm.cursors[j].measurement = out[c].Name
            /\ \A i \in 1..Len(out[c].Origin) : out[c].Origin[i].tags = out[c].Tags
\* A tag set ran out in the middle of filling a chunk and the next tag set
\* had values: the short chunk is followed by a chunk of the next tag set.
C2_Witness ==
    /\ kind = "raw"
    /\ \E i \in 1..(Len(out) - 1) :
          /\ out[i].Tags # out[i + 1].Tags
          /\ Len(out[i].Values) >= 1
          /\ Len(out[i].Values) < rm.chunkSize

\* C3 as stated: every chunk holds at most chunkSize values, for every
\* configured chunk size.
C3_Original ==
    kind = "raw" => \A c \in 1..Len(out) : Len(out[c].Values) <= rm.chunkSize
\* C3: with a chunk size of at least 1, every chunk of the RawMapper holds at
\* most chunkSize values.
C3_ChunkSizeBound ==
    (kind = "raw" /\ rm.chunkSize >= 1) =>
        \A c \in 1..Len(out) : Len(out[c].Values) <= rm.chunkSize
\* The bound cut a chunk: a full chunk is followed by another of its tag set.
C3_Witness ==
    /\ kind = "raw"
    /\ rm.chunkSize >= 2
    /\ \E i \in 1..(Len(out) - 1) :
          /\ out[i].Tags = out[i + 1].Tags
          /\ Len(out[i].Values) = rm.chunkSize

\* The points of tag set k that lie in the query window, decode and pass the
\* series filter.
RawExpected(k) ==
    {x \in UNION {{[key |-> key, p |-> p] : p \in PointsOf(key)} : key \in SeriesOf(k)} :
        /\ InWindow(x.p.k, rm.queryTMin, rm.queryTMax)
        /\ Decodes(x.p.v, rm.selectFields)
        /\ Passes(stmt.Condition.filter, x.p.v)}

\* C4: once the RawMapper has reached end-of-stream, every point of a tag
\* set that lies in the query window, decodes and passes its filter has been
\* delivered exactly once, and nothing else has.
C4_EveryQualifyingPointOnce ==
    (kind = "raw" /\ eos) =>
        \A k \in TagKeys : ExactlyOnce(Delivered(out, k), RawExpected(k))

\* C5: the raw scenario yields the one chunk [(0,1),(5,9),(10,2)] and then
\* end-of-stream.
C5_RawScenario ==
    (kind = "raw" /\ shard = ScenarioShardBuffered /\ index = ScenarioIndex
        /\ rm.chunkSize = 10 /\ eos) =>
        /\ Len(out) = 1
        /\ out[1].Values = <<[Time |-> 0, Value |-> [value |-> 1]],
                             [Time |-> 5, Value |-> [value |-> 9]],
                             [Time |-> 10, Value |-> [value |-> 2]]>>

\* The points of tag set k with lo <= t < hi that decode for the field and
\* pass the series filter.
AggExpected(k, lo, hi, field) ==
    {x \in UNION {{[key |-> key, p |-> p] : p \in PointsOf(key)} : key \in SeriesOf(k)} :
        /\ lo <= x.p.k /\ x.p.k < hi
        /\ Decodes(x.p.v, <<field>>)
        /\ Passes(stmt.Condition.filter, x.p.v)}

\* The values supplied to one map function, as delivered values.
SuppliedTo(c, f) ==
    [i \in 1..Len(c.Supplied[f]) |->
        [Time |-> c.Supplied[f][i].Time, bytes |-> c.Supplied[f][i].bytes]]

\* The interval start times of the chunks of tag set k, in order.
RECURSIVE TimesOf(_, _)
TimesOf(cs, k) ==
    IF cs = << >> THEN << >>
    ELSE (IF Head(cs).Tags = k THEN <<Head(cs).Time>> ELSE << >>) \o TimesOf(Tail(cs), k)

\* C6: the aggregate scenario yields two chunks, interval 0 with mean(1,9)
\* and interval 10 with mean(2).
C6_AggScenario ==
    (kind = "agg" /\ shard = ScenarioShardBuffered /\ index = ScenarioIndex /\ eos) =>
        /\ Len(out) = 2
        /\ out[1].Time = 0 /\ out[1].Values = <<[Count |-> 2, Sum |-> 10]>>
        /\ out[2].Time = 10 /\ out[2].Values = <<[Count |-> 1, Sum |-> 2]>>

\* C7: GROUP BY time(1h) over three hours aligned to hour boundaries yields,
\* per tag set, three chunks tagged with the three hours' starts in order.
C7_ThreeChunksPerTagSet ==
    (kind = "agg" /\ eos /\ stmt.Interval = Hour
        /\ am.queryTMin % Hour = 0 /\ am.queryTMax = am.queryTMin + 3 * Hour - 1) =>
        \A k \in TagKeys :
            TimesOf(out, k) = <<am.queryTMin, am.queryTMin + Hour, am.queryTMin + 2 * Hour>>

\* C8: each map function of each interval chunk is supplied exactly the tag
\* set's qualifying points with max(start, queryTMin) <= t < start +
\* intervalSize, in ascending time order.
C8_SuppliedExactlyInterval ==
    kind = "agg" =>
        \A c \in 1..Len(out) : \A f \in 1..Len(out[c].Supplied) :
            /\ ExactlyOnce(SuppliedTo(out[c], f),
                           AggExpected(out[c].Tags, Max2(out[c].Time, am.queryTMin),
                                       out[c].Time + am.intervalSize, am.fieldNames[f]))
            /\ NonDecreasing(SuppliedTo(out[c], f))

\* C9: without GROUP BY time every tag set yields one chunk, whose map
\* functions are supplied the tag set's qualifying points of the query range:
\* all those with queryTMin <= t < queryTMax, none outside queryTMin..queryTMax.
C9_WholeRangeOneInterval ==
    (kind = "agg" /\ stmt.Interval = 0 /\ eos) =>
        \A k \in TagKeys :
            /\ Len(TimesOf(out, k)) = 1
            /\ \A c \in 1..Len(out) : \A f \in 1..Len(out[c].Supplied) :
                  out[c].Tags = k =>
                      LET d  == SuppliedTo(out[c], f)
                          lo == AggExpected(k, am.queryTMin, am.queryTMax, am.fieldNames[f])
                          hi == AggExpected(k, am.queryTMin, am.queryTMax + 1, am.fieldNames[f])
                      IN  /\ \A x \in lo :
                                Count(d, [Time |-> x.p.k, bytes |-> x.p.v]) >=
                                Cardinality({y \in lo : y.p = x.p})
                          /\ \A i \in 1..Len(d) :
                                Count(d, d[i]) <=
                                Cardinality({y \in hi : y.p.k = d[i].Time /\ y.p.v = d[i].bytes})

\* C10: no value in a raw chunk and no value supplied to a map function comes
\* from a point whose series filter evaluates to anything but true on the
\* point's decoded fields.
C10_FilteredNeverDelivered ==
    \A c \in 1..Len(out) :
        IF kind = "raw"
        THEN \A i \in 1..Len(out[c].Origin) :
                Passes(out[c].Origin[i].filter, out[c].Origin[i].bytes)
        ELSE \A f \in 1..Len(out[c].Supplied) : \A i \in 1..Len(out[c].Supplied[f]) :
                Passes(out[c].Supplied[f][i].filter, out[c].Supplied[f][i].bytes)
\* A point that fails its filter lay in the window before a point of its tag
\* set that was delivered: it was read and skipped.
C10_Witness ==
    /\ stmt.Condition.filter # Nil
    /\ \E c \in 1..Len(out) : \E key \in SeriesOf(out[c].Tags) : \E p \in PointsOf(key) :
          /\ "corrupt" \notin DOMAIN p.v
          /\ ~Passes(stmt.Condition.filter, p.v)
          /\ IF kind = "raw"
             THEN /\ Len(rm.selectFields) > 1
                  /\ InWindow(p.k, rm.queryTMin, rm.queryTMax)
                  /\ \E i \in 1..Len(out[c].Values) : out[c].Values[i].Time > p.k
             ELSE /\ p.k >= Max2(out[c].Time, am.queryTMin)
                  /\ \E i \in 1..Len(out[c].Supplied[1]) : out[c].Supplied[1][i].Time > p.k

\* The keys TagSets() of the constructed mapper returns.
MapperTagSets == IF kind = "raw" THEN RawMapperTagSets(rm) ELSE AggMapperTagSets(am)

\* The keys of the tag sets of the measurements the statement reads.
KeysOfSources ==
    UNION {{formMeasurementTagSetKey(stmt.Sources[i].Name, index[stmt.Sources[i].Name].tagSets[j].Tags) :
                j \in 1..Len(index[stmt.Sources[i].Name].tagSets)} :
           i \in 1..Len(stmt.Sources)}

\* The read transaction of the constructed mapper: "nil" until Open is called.
MapperTx == IF kind = "raw" THEN rm.tx ELSE am.tx

\* C11: TagSets() of an opened mapper lists the keys of the statement's tag
\* sets, each once, in ascending order, whatever the order in which the
\* sources, tag sets and series were supplied.
C11_TagSetsAscending ==
    (MapperTx # "nil" /\ err = "") =>
        /\ \A i \in 1..(Len(MapperTagSets) - 1) : MapperTagSets[i] <= MapperTagSets[i + 1]
        /\ {MapperTagSets[i] : i \in 1..Len(MapperTagSets)} = KeysOfSources
        /\ Len(MapperTagSets) = Cardinality(KeysOfSources)
\* The mapper was opened on sources supplied in descending key order and on
\* series supplied in descending order, and has three tag sets.
C11_Witness ==
    /\ phase = "opened"
    /\ Len(stmt.Sources) = 2 /\ stmt.Sources[1].Name = "mem"
    /\ index["cpu"].tagSets[1].SeriesKeys = <<"s2", "s1">>
    /\ Len(MapperTagSets) = 3

\* The place of a chunk's tag set in TagSets() (0 when it is not there).
PlaceInTagSets(c) ==
    LET at == {i \in 1..Len(MapperTagSets) :
                   MapperTagSets[i] = formMeasurementTagSetKey(c.Name, c.Tags)}
    IN  IF at = {} THEN 0 ELSE CHOOSE i \in at : TRUE

\* C12: the chunks NextChunk returns follow the order of TagSets(): a chunk
\* of a tag set is never returned after a chunk of a later tag set.
C12_ChunksInTagSetOrder ==
    /\ \A i \in 1..Len(out) : PlaceInTagSets(out[i]) > 0
    /\ \A i \in 1..(Len(out) - 1) : PlaceInTagSets(out[i]) <= PlaceInTagSets(out[i + 1])
\* With the sources supplied in descending key order, a tag set returned two
\* chunks in a row and the next tag set followed it.
C12_Witness ==
    /\ Len(stmt.Sources) = 2 /\ stmt.Sources[1].Name = "mem"
    /\ \E i \in 1..(Len(out) - 2) :
          /\ PlaceInTagSets(out[i]) = PlaceInTagSets(out[i + 1])
          /\ PlaceInTagSets(out[i + 1]) < PlaceInTagSets(out[i + 2])

\* ---------------------------------------------------------------- C13

\* The timestamps of the points of a sequence.
TimesIn(pts) == {pts[i].k : i \in 1..Len(pts)}

\* C13 (as the specification states it): when a series cursor has been
\* walked by Next from its start to the first empty result, the entries
\* returned are in strictly ascending order of time, every timestamp that is
\* persisted or buffered for the series has been returned exactly once, and
\* every entry returned is a persisted or a buffered point of the series,
\* whatever the order of the buffer.
C13_SeriesWalkAscendingComplete ==
    (kind = "series" /\ eos) =>
        /\ \A i \in 1..(Len(walked) - 1) : walked[i].k < walked[i + 1].k
        /\ TimesIn(walked) = TimesIn(shard.bolt["s1"]) \cup TimesIn(shard.cache["s1"])
        /\ \A i \in 1..Len(walked) :
              \/ \E j \in 1..Len(shard.bolt["s1"]) : shard.bolt["s1"][j] = walked[i]
              \/ \E j \in 1..Len(shard.cache["s1"]) : shard.cache["s1"][j] = walked[i]

\* ---------------------------------------------------------------- C14

\* The chunks the mapper returns from its state on, up to the end of stream.
RECURSIVE RawRemaining(_)
RawRemaining(m) ==
    LET rest(r) == IF r.output = Nil THEN << >> ELSE <<r.output[1]>> \o RawRemaining(r.rm)
    IN  rest(RawMapperNextChunk(m))

RECURSIVE AggRemaining(_, _)
AggRemaining(m, st) ==
    LET rest(r) == IF r.output = Nil THEN << >> ELSE <<r.output[1]>> \o AggRemaining(r.am, st)
    IN  rest(AggMapperNextChunk(m, st))

Remaining == IF kind = "raw" THEN RawRemaining(rm) ELSE AggRemaining(am, stmt)

\* The chunks the mapper returns from Open to the end of stream over the
\* shard as it was when Open was called, with no writer.
ChunksAtOpen ==
    IF kind = "raw"
    THEN RawRemaining(RawMapperOpen(NewRawMapper(rm.chunkSize), stmt, atOpen[1], index).rm)
    ELSE AggRemaining(AggMapperOpen(NewAggMapper, stmt, atOpen[1], index).am, stmt)

\* The raw bytes of the points the chunks cs were made of.
BytesIn(cs) ==
    UNION {IF kind = "raw"
           THEN {cs[c].Origin[i].bytes : i \in 1..Len(cs[c].Origin)}
           ELSE UNION {{cs[c].Supplied[f][i].bytes : i \in 1..Len(cs[c].Supplied[f])} :
                           f \in 1..Len(cs[c].Supplied)} : c \in 1..Len(cs)}

\* The raw bytes of the points the shard sh holds.
BytesOfShard(sh) ==
    UNION {{sh.bolt[k][i].v : i \in 1..Len(sh.bolt[k])} \cup
           {sh.cache[k][i].v : i \in 1..Len(sh.cache[k])} : k \in SeriesKeySet}

MapperShardCursors ==
    LET cs == IF kind = "raw" THEN rm.cursors ELSE am.cursors
    IN  {cs[i].cursors[j].cursor : <<i, j>> \in
            {ij \in (1..Len(cs)) \X (1..2) : ij[2] <= Len(cs[ij[1]].cursors)}}

RetainedBy(st, sh, idx) ==
    IF kind = "raw"
    THEN Keys(RawMapperOpen(NewRawMapper(1), st, sh, idx).rm.cursors)
    ELSE Keys(AggMapperOpen(NewAggMapper, st, sh, idx).am.cursors)

\* C15 (as the specification states it): no step of a mapper changes the
\* statement's SLIMIT or SOFFSET, and a second mapper built from the same
\* statement retains on any other shard the tag sets it retains when it is
\* opened first.
C15_OpenLeavesStatement ==
    [][/\ stmt'.SLimit = stmt.SLimit
       /\ stmt'.SOffset = stmt.SOffset
       /\ \A sh \in CallsShards, idx \in CallsIndexes :
             RetainedBy(stmt', sh, idx) = RetainedBy(stmt, sh, idx)]_vars

\* ---------------------------------------------------------------- C16

\* C16 (as the specification states it): a call on a mapper that was never
\* opened, or that is closed, returns neither a chunk nor the end of stream.
C16_NextChunkNotOpenIsFatal ==
    [][(phase = phase' /\ phase \in {"created", "closed"}) => (out' = out /\ eos' = eos)]_vars

\* ---------------------------------------------------------------- C17

\* C17: a first Close, on a mapper never opened, opened with an error or opened
\* without one, leaves no transaction open and changes nothing else of the
\* mapper (nothing at all of a mapper never opened); the second Close leaves
\* the mapper and everything it has returned as they were.
C17_CloseIdempotent ==
    [][/\ (phase # "closed" /\ phase' = "closed") =>
            /\ (IF kind = "raw" THEN rm'.tx ELSE am'.tx) \in {"nil", "closed"}
            /\ [rm' EXCEPT !.tx = rm.tx] = rm
            /\ [am' EXCEPT !.tx = am.tx] = am
            /\ (phase = "created" => (rm' = rm /\ am' = am))
       /\ (phase = "closed" /\ ~closedAgain /\ closedAgain') =>
            (rm' = rm /\ am' = am /\ out' = out /\ eos' = eos /\ err' = err)]_vars

\* A mapper whose Open returned an error has been closed twice.
C17_Witness ==
    /\ closedAgain
    /\ err # ""
    /\ MapperTx = "closed"

\* ---------------------------------------------------------------- C18

MapperCursors == IF kind = "raw" THEN rm.cursors ELSE am.cursors

\* C18 (as the specification states it): when Open has returned a validation
\* error, the mapper holds no open read transaction and no tag-set cursors.
C18_FailedOpenKeepsNothing ==
    (phase = "opened" /\ err # "") => (MapperTx # "open" /\ MapperCursors = << >>)

\* ---------------------------------------------------------------- C19

\* The number of intervals of the statement's time range, and the number Open
\* tests against the ceiling: LIMIT lowers the count to itself (an OFFSET
\* without LIMIT to 0); offBeyond is the statement whose OFFSET is beyond the
\* count, for which Open returns before the test.
RangeIntervals(st) ==
    intervalsOf(st.Interval, st.Condition.tmin, st.Condition.tmax).numIntervals
TestedIntervals(st) ==
    IF (st.Limit > 0 \/ st.Offset > 0) /\ st.Limit < RangeIntervals(st)
    THEN st.Limit ELSE RangeIntervals(st)
offBeyond(st) == (st.Limit > 0 \/ st.Offset > 0) /\ st.Offset > RangeIntervals(st)

ReachesIntervalCount(st) ==
    /\ \A i \in 1..Len(st.Calls) : callError(st.Calls[i]) = ""
    /\ GroupByInterval(st).err = ""

OpenedWithoutMeasurement ==
    /\ MapperTx # "nil"
    /\ stmt.Sources[1].isMeasurement
    /\ Measurement(index, stmt.Sources[1].Name) = Nil

\* Open has returned no error, TagSets() is empty and NextChunk has returned
\* no chunk.
BenignEmpty == err = "" /\ MapperTagSets = << >> /\ out = << >>

\* C20 (as the specification states it): on an index without the measurement,
\* Open of either mapper returns no error, TagSets() is empty and no chunk is
\* returned.
C20_Original == OpenedWithoutMeasurement => BenignEmpty

\* C20: on an index without the measurement, Open of the RawMapper, and Open
\* of the AggMapper for a statement whose aggregate calls are well formed,
\* whose GROUP BY time() dimension is well formed and whose interval count is
\* within the ceiling, returns no error; TagSets() is empty and no chunk is
\* returned. Open of the AggMapper for any other statement returns the error
\* it returns when the measurement exists.
C20_MissingMeasurement ==
    LET wellFormed ==
            /\ \A i \in 1..Len(stmt.Calls) : callError(stmt.Calls[i]) = ""
            /\ GroupByInterval(stmt).err = ""
            /\ offBeyond(stmt) \/ ~tooManyIntervals(TestedIntervals(stmt))
    IN  OpenedWithoutMeasurement =>
            IF kind = "agg" /\ ~wellFormed
            THEN /\ err # ""
                 /\ err = AggMapperOpen(NewAggMapper, stmt, shard, Index).err
                 /\ out = << >>
            ELSE BenignEmpty

\* A mapper opened on an index without the measurement has returned the end
\* of stream at its first NextChunk.
C20_Witness ==
    /\ OpenedWithoutMeasurement
    /\ phase = "opened"
    /\ err = ""
    /\ eos
    /\ out = << >>

\* ---------------------------------------------------------------- C21

\* C21: when Open has returned the error of Begin, the mapper is as it was
\* constructed, with no transaction and no tag-set cursor, TagSets() is empty,
\* and it stays so through Close.
C21_BeginErrorKeepsNothing ==
    err = "database not open" =>
        /\ rm = NewRawMapper(rm.chunkSize)
        /\ am = NewAggMapper
        /\ MapperTx = "nil"
        /\ MapperCursors = << >>
        /\ MapperTagSets = << >>

\* Open has returned the error of Begin and the mapper has been closed.
C21_Witness ==
    /\ err = "database not open"
    /\ phase = "closed"
    /\ "cpu" \in DOMAIN index

\* ---------------------------------------------------------------- C22

\* The entries of the series s1 in the order of their key bytes, and the first
\* of them with a timestamp of at least t, as a sequence of one entry or none.
EntriesOfSeries == MergedEntries(shard.bolt["s1"], shard.cache["s1"])
FirstEntryFrom(t) ==
    LET at == {i \in 1..Len(EntriesOfSeries) : EntriesOfSeries[i].k >= t}
    IN  IF at = {} THEN Nil ELSE Some(EntriesOfSeries[CHOOSE i \in at : \A j \in at : i <= j])

\* The call returned the entry e (a sequence of one entry), or nothing when
\* there is none.
Returned(call, e) ==
    IF e = Nil THEN call.v = Nil
    ELSE call.k = e[1].k /\ call.v = Some(e[1].v)

Reads == {"Peek", "Next"}

\* The entry of the series that follows the key k in the order of the walk,
\* as a sequence of one entry or none.
EntryAfter(k) ==
    LET at == {i \in 1..Len(EntriesOfSeries) :
                  EntriesOfSeries[i].k # k /\ AtLeastAsUint64(EntriesOfSeries[i].k, k)}
    IN  IF at = {} THEN Nil ELSE Some(EntriesOfSeries[CHOOSE i \in at : \A j \in at : i <= j])

\* C22 (as the specification states it): a Peek or Next that follows a Peek
\* returns the pair that Peek returned; and when a Next has returned the pair
\* of the Peek before it, an entry of the series, the call after it returns
\* the entry that follows.
C22_PeekKeepsNext ==
    kind = "cursor" =>
        /\ \A i \in 1..(Len(walked) - 1) :
              (walked[i].op = "Peek" /\ walked[i + 1].op \in Reads) =>
                  (walked[i + 1].k = walked[i].k /\ walked[i + 1].v = walked[i].v)
        /\ \A i \in 1..(Len(walked) - 2) :
              (/\ walked[i].op = "Peek" /\ walked[i + 1].op = "Next"
               /\ walked[i + 2].op \in Reads /\ walked[i].k # 0) =>
                  Returned(walked[i + 2], EntryAfter(walked[i].k))

\* ---------------------------------------------------------------- C23

\* The series has no entry at timestamp 0.
NoEntryAtZero == \A i \in 1..Len(EntriesOfSeries) : EntriesOfSeries[i].k # 0

\* C23 (as the specification states it): the Peek or Next that follows
\* SeekTo(t) returns the first entry of the series with a timestamp of at
\* least t, or no value when there is none.
C23_SeekToPositions ==
    (kind = "cursor" /\ NoEntryAtZero) =>
        \A i \in 1..(Len(walked) - 1) :
            (walked[i].op = "SeekTo" /\ walked[i + 1].op \in Reads) =>
                Returned(walked[i + 1], FirstEntryFrom(walked[i].k))

\* ---------------------------------------------------------------- C24

\* C24 (as the specification states it): on a series with no entry at
\* timestamp 0, a Peek or Next that returns timestamp 0 returns no value.
C24_SentinelHasNoValue ==
    (kind = "cursor" /\ NoEntryAtZero) =>
        \A i \in 1..Len(walked) :
            (walked[i].op \in Reads /\ walked[i].k = 0) => walked[i].v = Nil

\* ---------------------------------------------------------------- C25

\* The member cursors (by position) whose lookahead at the call is an entry
\* in the window.
InWindowLookaheads(call) ==
    {j \in 1..Len(call.look) :
        /\ call.look[j].v # Nil
        /\ InWindow(call.look[j].k, stmt.Condition.tmin, stmt.Condition.tmax)}

\* Every point of the tag set decodes and no filter is set: every entry
\* qualifies.
AllQualify ==
    /\ stmt.Condition.filter = Nil
    /\ \A key \in {"s1", "s2"} : \A p \in PointsOf(key) : "corrupt" \notin DOMAIN p.v

\* C25 (as the specification states it): when every entry qualifies, a call
\* returns the in-window lookahead entry with the lowest timestamp, that of
\* the earliest member cursor when several share it, and returns nothing only
\* when no member cursor has an in-window lookahead entry.
C25_LowestLookaheadFirst ==
    (kind = "tagset" /\ AllQualify) =>
        \A i \in 1..Len(walked) :
            LET w == InWindowLookaheads(walked[i])
                first == CHOOSE j \in w : \A j2 \in w :
                             \/ walked[i].look[j].k < walked[i].look[j2].k
                             \/ walked[i].look[j].k = walked[i].look[j2].k /\ j <= j2
            IN  IF w = {} THEN walked[i].v = Nil
                ELSE /\ walked[i].v # Nil
                     /\ walked[i].k = walked[i].look[first].k
                     /\ walked[i].bytes = walked[i].look[first].v

\* ---------------------------------------------------------------- C26

\* A member cursor's lookahead at the call is an entry at timestamp t that
\* decodes and passes the filter.
QualifyingLookaheadAt(call, t) ==
    \E j \in 1..Len(call.look) :
        /\ call.look[j].v # Nil
        /\ call.look[j].k = t
        /\ Decodes(call.look[j].v[1], stmt.Fields)
        /\ Passes(stmt.Condition.filter, call.look[j].v[1])

\* The calls return only entries inside the window.
ReturnsInsideWindow ==
    \A i \in 1..Len(walked) :
        walked[i].v # Nil =>
            /\ walked[i].k >= stmt.Condition.tmin
            /\ \/ walked[i].k = stmt.Condition.tmin
               \/ walked[i].k < stmt.Condition.tmax

\* C26 (as the specification states it): Next returns only entries with
\* t >= tmin and (t = tmin or t < tmax), and an entry at t = tmin is
\* admitted, also when tmin >= tmax.
C26_WindowAdmission ==
    kind = "tagset" =>
        /\ ReturnsInsideWindow
        /\ \A i \in 1..Len(walked) :
               QualifyingLookaheadAt(walked[i], stmt.Condition.tmin) =>
                   /\ walked[i].v # Nil
                   /\ walked[i].k = stmt.Condition.tmin

\* ---------------------------------------------------------------- C27

\* The keys of the tag sets at positions O .. O + min(L, N - O) - 1 (counted
\* from 0) of the N tag sets of the measurement name, none when O > N.
KeysInSeriesLimit(name) ==
    LET ts == index[name].tagSets
        N == Len(ts)
        O == stmt.SOffset
        L == stmt.SLimit
        n == IF O > N THEN 0 ELSE IF L < N - O THEN L ELSE N - O
    IN  {formMeasurementTagSetKey(name, ts[O + i].Tags) : i \in 1..n}

\* The keys of the tag-set cursors cs.
KeySetOf(cs) == {tagSetCursorKey(cs[i]) : i \in 1..Len(cs)}

\* C27 (as the specification states it): when SLIMIT and SOFFSET are not
\* both zero, Open succeeds and retains, of the tag sets of every measurement
\* it reads, exactly those at positions O .. O + min(L, N - O) - 1, none when
\* O > N.
C27_SeriesLimitWindow ==
    [][(/\ phase = "created"
        /\ phase' = "opened"
        /\ (stmt.SLimit > 0 \/ stmt.SOffset > 0))
       => (/\ err' = ""
           /\ KeySetOf(IF kind = "raw" THEN rm'.cursors ELSE am'.cursors)
                = UNION {KeysInSeriesLimit(stmt.Sources[i].Name) : i \in 1..Len(stmt.Sources)})]_vars

\* ---------------------------------------------------------------- C28

\* The number of intervals the statement's range contains: the hours that
\* meet [tmin, tmax] under GROUP BY time, else the one whole range.
IntervalsInRange(st) ==
    IF st.Interval = 0 THEN 1
    ELSE (st.Condition.tmax \div st.Interval) - (st.Condition.tmin \div st.Interval) + 1

\* How many intervals LIMIT L and OFFSET O leave of N: none when O exceeds N,
\* else min(L, N - O), from index O.
IntervalsLeft(st) ==
    LET N == IntervalsInRange(st)
    IN  IF st.Offset > N THEN 0
        ELSE IF st.Limit < N - st.Offset THEN st.Limit ELSE N - st.Offset

\* C28 (as the specification states it): with LIMIT and OFFSET not both
\* zero, Open succeeds and every tag set yields exactly the intervals of
\* index O .. O + min(L, N - O) - 1, none when O exceeds N, under GROUP BY
\* time and without it.
C28_IntervalLimitWindow ==
    (kind = "agg" /\ phase = "opened" /\ (stmt.Limit > 0 \/ stmt.Offset > 0)) =>
        /\ err = ""
        /\ eos =>
             \A k \in TagKeys :
                 /\ Len(TimesOf(out, k)) = IntervalsLeft(stmt)
                 /\ stmt.Interval > 0 =>
                        TimesOf(out, k) =
                            [j \in 1..IntervalsLeft(stmt) |->
                                windowStart(stmt.Condition.tmin, stmt.Interval)
                                    + (stmt.Offset + j - 1) * stmt.Interval]

\* ---------------------------------------------------------------- C29

\* The chunks of tag set k among cs, in order.
RECURSIVE ChunksOf(_, _)
ChunksOf(cs, k) ==
    IF cs = << >> THEN << >>
    ELSE (IF Head(cs).Tags = k THEN <<Head(cs)>> ELSE << >>) \o ChunksOf(Tail(cs), k)

\* The result of the statement's f-th call over the values supplied to the
\* f-th map function of chunk c: a count, a sum, or the count and sum of a
\* mean.
ResultOfCall(c, f) ==
    LET call == stmt.Calls[f]
        sum  == SumOf(c.Supplied[f], call.Field)
        n    == Len(c.Supplied[f])
    IN  IF call.Name = "count" THEN [Count |-> n]
        ELSE IF call.Name = "sum" THEN [Sum |-> sum]
        ELSE [Count |-> n, Sum |-> sum]

\* C29: every aggregate chunk holds one value per call of the statement, the
\* f-th being the result of the f-th call, and the n-th chunk of a tag set
\* has as Time the start of the n-th interval, from which on the values
\* supplied to its map functions lie, before the next interval's start.
C29_OneValuePerCallAtIntervalStart ==
    kind = "agg" =>
        \A k \in TagKeys :
            LET cs == ChunksOf(out, k)
            IN  \A n \in 1..Len(cs) :
                    /\ Len(cs[n].Values) = Len(stmt.Calls)
                    /\ \A f \in 1..Len(stmt.Calls) : cs[n].Values[f] = ResultOfCall(cs[n], f)
                    /\ cs[n].Time = am.queryTMinWindow + (n - 1 + stmt.Offset) * am.intervalSize
                    /\ \A f \in 1..Len(cs[n].Supplied) : \A i \in 1..Len(cs[n].Supplied[f]) :
                           /\ cs[n].Time <= cs[n].Supplied[f][i].Time
                           /\ \/ cs[n].Supplied[f][i].Time < cs[n].Time + am.intervalSize
                              \/ cs[n].Supplied[f][i].Time = cs[n].Time

\* The second interval's chunk of a tag set, with a mean and a count over at
\* least one supplied value.
C29_Witness ==
    /\ kind = "agg"
    /\ \E c \in 1..Len(out) :
          /\ out[c].Time = Hour
          /\ stmt.Interval = Hour
          /\ Len(out[c].Values) = 2
          /\ out[c].Values[1].Count >= 1
          /\ DOMAIN out[c].Values[2] = {"Count"}

\* ---------------------------------------------------------------- C30

\* The shard without the points whose decode for the select fields fails.
DecodableOnly(pts) == SelectSeq(pts, LAMBDA p : Decodes(p.v, stmt.Fields))
DecodableShard ==
    [bolt  |-> [k \in SeriesKeySet |-> DecodableOnly(shard.bolt[k])],
     cache |-> [k \in SeriesKeySet |-> DecodableOnly(shard.cache[k])]]

\* Every point of the tag set whose decode fails is one Next reads: it lies in
\* the window and not at timestamp 0.
UndecodableAreRead ==
    \A key \in {"s1", "s2"} : \A p \in PointsOf(key) :
        ~Decodes(p.v, stmt.Fields) =>
            (p.k # 0 /\ InWindow(p.k, stmt.Condition.tmin, stmt.Condition.tmax))

\* The member cursors were sought to tmin before the first call: their
\* shardCursors have left their first position.
SoughtAtFirstCall ==
    /\ walked # << >>
    /\ \A j \in 1..Len(walked[1].before) : walked[1].before[j].cursor.index > 1

\* What the calls of Next return over the cursors cs up to the first nil
\* value: the timestamps and the raw bytes.
RECURSIVE StreamOf(_)
StreamOf(cs) ==
    LET more(r) ==
            IF r.value = Nil THEN << >>
            ELSE <<[k |-> r.key, bytes |-> r.bytes]>> \o StreamOf(r.cursors)
    IN  more(tagSetCursorNext(cs, stmt.Condition.tmin, stmt.Condition.tmax,
                              stmt.Fields, WhereFieldsOf(stmt).whereFields))

\* The stream of the same tag set had the undecodable points never been
\* written.
StreamWithoutUndecodable ==
    StreamOf(seriesCursorsFor(DecodableShard, TagSets(Index["cpu"], stmt, stmt.Dimensions).tagSets[1], 1,
                              SoughtAtFirstCall, stmt.Condition.tmin))

\* The timestamps and raw bytes the calls so far have returned, the final nil
\* left out.
ReturnedSoFar ==
    LET got == SelectSeq(walked, LAMBDA c : c.v # Nil)
    IN  [i \in 1..Len(got) |-> [k |-> got[i].k, bytes |-> got[i].bytes]]

\* C30 (as the specification states it): a point whose decode fails is never
\* returned, and the calls return what they would return had the point never
\* been written: value by value the same stream, ended by the nil value at
\* the same place.
C30_DecodeFailureSkipsOnePoint ==
    (kind = "tagset" /\ UndecodableAreRead) =>
        /\ \A i \in 1..Len(walked) :
               walked[i].v # Nil => Decodes(walked[i].bytes[1], stmt.Fields)
        /\ LET without(s) ==
                   /\ Len(ReturnedSoFar) <= Len(s)
                   /\ ReturnedSoFar = SubSeq(s, 1, Len(ReturnedSoFar))
                   /\ eos => Len(ReturnedSoFar) = Len(s)
           IN  without(StreamWithoutUndecodable)

\* ---------------------------------------------------------------- C31

\* Some member series of tag set k has a bucket or cached points in the shard
\* the mapper was opened on.
HasDataAtOpen(k) ==
    \E s \in SeriesOf(k) : createCursorForSeries(atOpen[1], s) # Nil

\* C31 (as the specification states it): every key TagSets() returns is the
\* key of a tag set with data: a tag set none of whose series has a bucket or
\* cached points in the shard is not listed.
C31_TagSetsHaveData ==
    (phase = "opened" /\ err = "") =>
        \A k \in TagKeys :
            (\E i \in 1..Len(MapperTagSets) :
                 MapperTagSets[i] = formMeasurementTagSetKey("cpu", k))
                => HasDataAtOpen(k)

\* ---------------------------------------------------------------- C32

\* The RawMapper's tag-set cursor of the tags k returns no value when asked
\* for its next one.
RawCursorExhausted(k) ==
    \A j \in 1..Len(rm.cursors) :
        rm.cursors[j].tags = k =>
            tagSetCursorNext(rm.cursors[j].cursors, rm.queryTMin, rm.queryTMax,
                             rm.selectFields, rm.whereFields).value = Nil

\* C32: with a chunk size of at least 1, a chunk with fewer values than the
\* chunk size is the last chunk of its tag set, returned when the tag-set
\* cursor has no further value: every earlier chunk of the tag set holds
\* exactly chunkSize values.
C32_ShortChunkIsLast ==
    (kind = "raw" /\ rm.chunkSize >= 1) =>
        \A c \in 1..Len(out) :
            Len(out[c].Values) # rm.chunkSize =>
                /\ Len(out[c].Values) < rm.chunkSize
                /\ \A d \in (c + 1)..Len(out) : out[d].Tags # out[c].Tags
                /\ RawCursorExhausted(out[c].Tags)

\* A full chunk followed by the short last chunk of the same tag set.
C32_Witness ==
    /\ kind = "raw"
    /\ rm.chunkSize >= 2
    /\ \E i \in 1..(Len(out) - 1) :
          /\ out[i].Tags = out[i + 1].Tags
          /\ Len(out[i].Values) = rm.chunkSize
          /\ Len(out[i + 1].Values) < rm.chunkSize

\* ---------------------------------------------------------------- C33

\* C33: no chunk of the RawMapper is without values.
C33_NoEmptyChunk ==
    kind = "raw" => \A c \in 1..Len(out) : Len(out[c].Values) >= 1

\* The stream has ended, a tag set whose values filled exactly one chunk has
\* that chunk alone, and another tag set with stored points has no chunk.
C33_Witness ==
    /\ kind = "raw"
    /\ eos
    /\ rm.chunkSize = 2
    /\ \E i \in 1..Len(out) :
          /\ Len(out[i].Values) = rm.chunkSize
          /\ \A d \in 1..Len(out) : d # i => out[d].Tags # out[i].Tags
    /\ \E k \in TagKeys :
          /\ \A d \in 1..Len(out) : out[d].Tags # k
          /\ \E s \in SeriesOf(k) : PointsOf(s) # {}

\* ---------------------------------------------------------------- C34

\* floor(queryTMin / intervalSize) * intervalSize; queryTMin itself when the
\* interval is empty.
FloorAlignedStart ==
    IF am.intervalSize > 0
    THEN (am.queryTMin \div am.intervalSize) * am.intervalSize
    ELSE am.queryTMin

\* C34 (as the specification states it): for every tag set, the n-th chunk
\* has as Time the floor-aligned start plus (OFFSET + n - 1) interval sizes,
\* and the times ascend strictly: every tag set starts again from the
\* interval of index OFFSET.
C34_IntervalStartsAscendFromOffset ==
    kind = "agg" =>
        \A k \in TagKeys :
            LET ts == TimesOf(out, k)
            IN  \A n \in 1..Len(ts) :
                    /\ ts[n] = FloorAlignedStart + (stmt.Offset + n - 1) * am.intervalSize
                    /\ n > 1 => ts[n - 1] < ts[n]

\* ---------------------------------------------------------------- C35

\* C35: within a chunk, two map functions over the same field are supplied
\* the same sequence of values, whatever the functions before them consumed.
C35_FunctionsReadIndependently ==
    kind = "agg" =>
        \A c \in 1..Len(out) : \A f \in 1..Len(out[c].Supplied), g \in 1..Len(out[c].Supplied) :
            am.fieldNames[f] = am.fieldNames[g] => out[c].Supplied[f] = out[c].Supplied[g]

\* A chunk whose first function consumed two values and whose second
\* function, over the same field, was supplied those two again.
C35_Witness ==
    /\ kind = "agg"
    /\ \E c \in 1..Len(out) :
          /\ Len(out[c].Supplied) = 2
          /\ am.fieldNames[1] = am.fieldNames[2]
          /\ Len(out[c].Supplied[1]) >= 2
          /\ Len(out[c].Supplied[2]) >= 2

\* ---------------------------------------------------------------- C36

\* The names of the statement's SELECT clause and of its WHERE clause, time
\* left out, and the names the measurement knows.
SelectNames ==
    {stmt.Fields[i] : i \in 1..Len(stmt.Fields)} \cup {stmt.Calls[i].Field : i \in 1..Len(stmt.Calls)}
WhereNames ==
    IF stmt.Condition.filter = Nil THEN {} ELSE {stmt.Condition.filter[1].field} \ {"time"}
KnownNames == index["cpu"].fields \cup index["cpu"].tagKeys

SetOf(s) == {s[i] : i \in 1..Len(s)}

\* The error names the select clause, the where clause.
NamesSelect(e) == e = "unknown field or tag name in select clause"
NamesWhere(e) == e = "unknown field or tag name in where clause"

\* C36 (as the specification states it): resolution fails naming the select
\* clause exactly when a SELECT name is neither field nor tag key, and naming
\* the where clause exactly when a WHERE name other than time is neither.
C36_Original ==
    (kind = "resolve" /\ walked # << >>) =>
        LET r == walked[1]
        IN  /\ NamesSelect(r.err) <=> (SelectNames \ KnownNames # {})
            /\ NamesWhere(r.err) <=> (WhereNames \ KnownNames # {})

\* C36: resolution returns the first of these errors: that of Normalize; the
\* one naming the select clause, when a SELECT name is neither field nor tag
\* key; the one naming the where clause, when a WHERE name other than time is
\* neither; that of Measurement.TagSets. When none arises it succeeds: every
\* SELECT name is a select field or a select tag and not both, every select
\* tag is among the dimension keys with the GROUP BY keys, and the tag sets
\* are those of the measurement's series grouped by these keys.
C36_ResolutionValidatesNames ==
    (kind = "resolve" /\ walked # << >>) =>
        LET r == walked[1]
            m == index["cpu"]
            badSelect == SelectNames \ KnownNames # {}
            badWhere  == WhereNames \ KnownNames # {}
            normErr   == Normalize(stmt).err
        IN  /\ normErr # "" => r.err = normErr
            /\ normErr = "" =>
                  /\ NamesSelect(r.err) <=> badSelect
                  /\ NamesWhere(r.err) <=> (badWhere /\ ~badSelect)
                  /\ (~badSelect /\ ~badWhere) => r.err = stmt.TagSetsErr
            /\ r.err = "" =>
                  /\ SetOf(r.selectFields) \cup SetOf(r.selectTags) = SelectNames
                  /\ SetOf(r.selectFields) \cap SetOf(r.selectTags) = {}
                  /\ SetOf(r.selectFields) \subseteq m.fields
                  /\ SetOf(r.selectTags) \subseteq m.tagKeys
                  /\ SetOf(r.selectTags) \subseteq SetOf(r.tagKeys)
                  /\ SetOf(stmt.Dimensions) \subseteq SetOf(r.tagKeys)
                  /\ Len(r.tagSets) = IF "host" \in SetOf(stmt.Dimensions) \cup SetOf(r.selectTags)
                                       THEN Len(m.tagSets) ELSE 1

\* A statement that selects a field and a tag key and filters on a field was
\* resolved: one select field, one select tag, the tag among the dimensions.
C36_Witness ==
    /\ kind = "resolve"
    /\ walked # << >>
    /\ walked[1].err = ""
    /\ stmt.Dimensions = << >>
    /\ walked[1].selectFields = <<"value">>
    /\ walked[1].selectTags = <<"host">>
    /\ walked[1].tagKeys = <<"host">>
    /\ walked[1].whereFields = <<"other">>

\* ---------------------------------------------------------------- C37

\* C37 (as the specification states it): once a NextChunk call has returned
\* the end of the stream, no later step returns a chunk and the end of the
\* stream stays; the current-cursor index stays within 0 .. the number of
\* tag-set cursors.
C37_EndOfStreamSticky ==
    [][/\ eos => (out' = out /\ eos')
       /\ rm'.currCursorIndex \in 0..Len(rm'.cursors)
       /\ am'.currCursorIndex \in 0..Len(am'.cursors)]_vars

\* ---------------------------------------------------------------- C38

\* How often the point p is among the entries s.
Occurrences(s, p) == Cardinality({i \in 1..Len(s) : s[i] = p})

\* How often the point p of the series key is in the two sources of the
\* mapper's cursor of that series, its bucket and its copy of the cache; 0
\* when the mapper has no cursor of the series.
TimesVisible(key, p) ==
    LET scs == {sc \in MapperShardCursors : sc.key = key}
        in(sc) == Occurrences(sc.bucket, p) + Occurrences(sc.cache, p)
    IN  IF scs = {} THEN 0 ELSE in(CHOOSE sc \in scs : TRUE)

\* C38 (as the specification states it): every point written before Open
\* started is in exactly one of the two sources of the opened mapper's cursor
\* of its series, also when the series' cache was flushed between the begin
\* of the read transaction and the creation of the cursors.
C38_FlushDuringOpen ==
    (kind = "raw" /\ atOpen # Nil /\ phase = "opened" /\ err = "") =>
        \A key \in {"s1", "s2"} : \A p \in PointsOf(key) : TimesVisible(key, p) = 1

\* ---------------------------------------------------------------- C39

\* The interval start times of the opened AggMapper's budget: the start of
\* the interval of index OFFSET and of those after it, numIntervals at most
\* and none beyond queryTMax.
BudgetTimes ==
    LET t(j) == am.queryTMinWindow + (stmt.Offset + j - 1) * am.intervalSize
        n    == Cardinality({j \in 1..am.numIntervals : t(j) <= am.queryTMax})
    IN  [j \in 1..n |-> t(j)]

\* C39 (as the specification states it): when the stream has ended, every
\* tag-set cursor of the AggMapper has yielded one chunk per interval of the
\* budget, with or without points in the interval and with or without series
\* cursors: all tag sets have the same sequence of chunk times.
C39_ChunkPerIntervalPerTagSet ==
    (kind = "agg" /\ eos /\ err = "") =>
        /\ \A j \in 1..Len(am.cursors) : TimesOf(out, am.cursors[j].tags) = BudgetTimes
        /\ \A j, i \in 1..Len(am.cursors) :
               TimesOf(out, am.cursors[j].tags) = TimesOf(out, am.cursors[i].tags)
        /\ Len(out) = Len(am.cursors) * Len(BudgetTimes)

\* ---------------------------------------------------------------- C40

\* C40: a caller that keeps calling NextChunk on a mapper opened without
\* error reaches the end of the stream, and does so before it has taken
\* MaxChunks chunks: every call returns, whatever points of the shard are
\* rejected by the filter, undecodable or outside the window.
C40_NextChunkReachesEndOfStream ==
    /\ [](Len(out) < MaxChunks)
    /\ (phase = "opened" /\ err = "") ~> eos

\* The end of the stream was reached on a shard with a point that does not
\* decode and a point the filter rejects or the window leaves out: fewer
\* values were returned than the shard holds points.
C40_Witness ==
    /\ eos
    /\ kind = "raw"
    /\ \E key \in {"s1", "s2"} : \E p \in PointsOf(key) : p.v = Corrupt
    /\ \E key \in {"s1", "s2"} : \E p \in PointsOf(key) :
          p.v # Corrupt /\ ~InWindow(p.k, stmt.Condition.tmin, stmt.Condition.tmax)
    /\ Len(out) >= 1

====
